---- MODULE Spec2Model ----
(***************************************************************************)
(* A model of veritas: the batched evaluator (src/src/batching.rs) with    *)
(* its engine clients, and the MCTS search tree (src/src/engine.rs,        *)
(* src/src/node.rs).                                                       *)
(*                                                                         *)
(*   Spec        the evaluator thread and its clients, clients may drop    *)
(*   FairSpec    Spec with the fairness of OS thread scheduling            *)
(*   LiveSpec    clients never drop and always resubmit, with fairness     *)
(*   SearchSpec  one engine running go / search iterations on its tree     *)
(***************************************************************************)
EXTENDS Integers, Sequences, FiniteSets, TLC

(***************************************************************************)
(* Bounds of the model.                                                    *)
(***************************************************************************)
\* number of pipes handed to batching::executor (num_threads in datagen)
NumPipes == 2
\* positions a client submits at most
MaxSubmit == 2

\* batching.rs:10
EXECUTOR_BATCH_SIZE == 1024

Pipes == 0 .. (NumPipes - 1)

Min(a, b) == IF a <= b THEN a ELSE b

Max(a, b) == IF a >= b THEN a ELSE b

\* mutants of BatchSize: a batch of one board; max taken for min
BatchSizeOne == IF NumPipes >= 1 THEN 1 ELSE 0
BatchSizeMax == Max(EXECUTOR_BATCH_SIZE, NumPipes)

\* batching.rs:35  let batch_size = EXECUTOR_BATCH_SIZE.min(num_pipes);
BatchSize == Min(EXECUTOR_BATCH_SIZE, NumPipes)

\* bound: a capacity below the number of pipes, in the place of the 1024 of
\* the source with more than 1024 pipes
SmallBatchSize == 1

VARIABLES
  \* ---- clients (Engine::search / Engine::do_sesb on an ExecutorHandle) ----
  pc,          \* pc[c]: "idle" | "send" | "recv" | "dropped" | "panicked"
  sent,        \* sent[c]: the boards client c has submitted, in order
  rcvd,        \* rcvd[c]: the replies client c has received, in order
  \* ---- channels, crossbeam bounded(1) ----
  reqCh,       \* reqCh[c]: boards in flight from client c to the evaluator
  replyCh,     \* replyCh[c]: replies in flight from the evaluator to client c
  \* ---- the executor thread ----
  evPc,        \* "while" | "for" | "select" | "tick" | "fanout" | "exited"
  sweepIdx,    \* position of the for loop of pull over eval_pipes
  foundAnything, \* found_anything of pull
  inWaiting,   \* Executor::in_waiting: sequence of <<pipe_index, board>>
  indices,     \* indices of tick: pipe index of every batch slot
  outputs,     \* the evaluated tensors of tick, one row per batch slot
  slot,        \* batch_index of the fan-out loop of tick
  \* ---- history ----
  pulled,      \* pulled[c]: number of boards of c pushed onto in_waiting
  replied,     \* replied[c]: number of replies sent on c's reply channel
  batches,     \* number of batches evaluated
  lost         \* the waiting list the executor held when it was dropped

evalVars == <<pc, sent, rcvd, reqCh, replyCh, evPc, sweepIdx, foundAnything,
              inWaiting, indices, outputs, slot, pulled, replied, batches, lost>>

VARIABLES
  \* ---- one engine (Engine in engine.rs) ----
  tree,          \* Engine::tree, the node storage; node i is tree[i + 1]
  root,          \* Engine::root, the root position
  phase,         \* "idle" between go calls, "searching" inside Engine::search
  nodes_searched, \* nodes_searched of Engine::search
  nodeLimit,     \* Engine::limits, the node cap (NoLimit if none is set)
  iterations,    \* history: do_sesb calls made on the present tree
  boards,        \* history: boards[i + 1] is the board node i was expanded with
  inherited,     \* history: the nodes the tree held when the last go call began
  expansions,    \* history: the iterations of the last go call that added a node
  goSinceSet,    \* history: a go call was made since the last set_position
  continued,     \* history: the last go call followed another go call directly
  rootAtGo,      \* history: Engine::root when the last go call began
  lastGo         \* the SearchResults the last go call returned, if it returned

treeVars == <<tree, root, phase, nodes_searched, nodeLimit, iterations,
              boards, inherited, expansions, goSinceSet, continued, rootAtGo, lastGo>>

VARIABLES
  \* ---- Limits (timemgmt.rs): the operands of +, and a LIMITS text ----
  lhs,           \* self of Limits::add
  rhs,           \* rhs of Limits::add
  sum,           \* the value Limits::add returned, once it has
  specifiers,    \* the specifiers the LIMITS text was written from
  words,         \* split_ascii_whitespace of the LIMITS text
  parsed         \* the value Limits::from_str returned, once it has

limVars == <<lhs, rhs, sum, specifiers, words, parsed>>

VARIABLES
  \* ---- the protocol loop (ugi.rs) and the search it runs ----
  script,        \* the lines of standard input not read yet
  readerPc,      \* stdin_reader_worker: "read" | "eof_sent" | "done"
  cmdCh,         \* the lines sent on the command channel and not received yet
  QUIT,          \* ugi::QUIT
  STDIN_READER_THREAD_KEEP_RUNNING,
  mainPc,        \* main_loop: "recv" | "search" | "exited" | "panicked"
  limits,        \* Engine::limits of the engine of main_loop
  searchCount,      \* nodes_searched of the search main_loop runs
  stopped_by_stdin,
  treeState,     \* the tree of the engine: "empty" | "root" (a root without
                 \* children) | "grown" (do_sesb has run on it)
  readyoks,      \* the readyok lines printed
  bestmoves,     \* the bestmove lines printed
  isreadyTaken,  \* history: the isready lines taken off the command channel
  sinceLine,     \* history: the iterations of the present search that began
                 \* with a line waiting on the command channel
  lateHandled,   \* history: the commands main_loop matched with QUIT set
  quitBy,        \* history: who set QUIT first: "loop" | "poll" | "eof"
  polled,        \* history: the command the present search took, if any
  engineRoot,    \* Engine::root of the engine of main_loop
  turns          \* history: the turns of the loop of main_loop, one record
                 \* for each line it matched

ugiVars == <<script, readerPc, cmdCh, QUIT, STDIN_READER_THREAD_KEEP_RUNNING, mainPc,
             limits, searchCount, stopped_by_stdin, treeState, readyoks, bestmoves,
             isreadyTaken, sinceLine, lateHandled, quitBy, polled, engineRoot, turns>>

VARIABLES
  \* ---- one call of Clock::time_limit and one of Limits::is_out_of_time ----
  tmLimits,      \* self of is_out_of_time; its clock is self of time_limit
  tmNodes,       \* the argument nodes_searched
  tmElapsed,     \* the argument elapsed
  tmIsP1,        \* the argument is_p1
  overflowChecks, \* the build checks integer overflow (it panics) or wraps
  timeLimit,     \* what Clock::time_limit did, once it was called
  outOfTime      \* what Limits::is_out_of_time did, once it was called

timeVars == <<tmLimits, tmNodes, tmElapsed, tmIsP1, overflowChecks, timeLimit, outOfTime>>

VARIABLES
  \* ---- data generation (datagen.rs): the self-play workers, each on the
  \* ExecutorHandle of its index, and the thread that writes the records ----
  wPc,           \* wPc[w]: "loop" (the head of the while loop) | "play" (the
                 \* game loop) | "ended" (the loop is left, send dropped)
  wBoard,        \* wBoard[w]: board of the worker
  wGame,         \* wGame[w]: game of the worker, a GameRecord
  wStarted,      \* history: the games worker w has started
  wPlies,        \* history: the calls of Engine::go worker w has returned from
  recordCh,      \* the mpsc channel of game records
  wrPc,          \* the writer: "recv" | "done" | "panicked"
  positions,     \* the lines of positions.csv
  policy_tgt,    \* the lines of policy-target.csv
  value_tgt,     \* the lines of value-target.csv
  taken,         \* history: the messages the writer took off the channel
  expired        \* expired[w]: start_time.elapsed() of worker w has reached
                 \* time_allocated_millis

genVars == <<wPc, wBoard, wGame, wStarted, wPlies, recordCh, wrPc, positions,
             policy_tgt, value_tgt, taken, expired>>

VARIABLES
  \* ---- Params (params.rs) ----
  c_puct         \* Params::c_puct, the fraction num / den

parVars == <<c_puct>>

VARIABLES
  \* ---- Executor (batching.rs) ----
  batch_size     \* Executor::batch_size

execVars == <<batch_size>>

VARIABLES
  \* ---- Arena (arena.rs) ----
  objects,       \* Arena::objects
  free_list,     \* Arena::free_list
  live,          \* history: the handles alloc has returned that no dealloc
                 \* was given since
  issued,        \* history: the handles alloc has ever returned
  misused,       \* history: a dealloc was given a handle that was not live
  arResult       \* history: the last call on the arena and what it returned

arenaVars == <<objects, free_list, live, issued, misused, arResult>>

vars == <<evalVars, treeVars, limVars, ugiVars, timeVars, genVars, parVars, execVars, arenaVars>>

(***************************************************************************)
(* The boards and the network.                                             *)
(***************************************************************************)
\* the n-th board client c submits (n counted from 1)
Board(c, n) == <<c, n>>

\* the network: one output row (policy, value) per input row, a function of
\* the input row only
Evaluate(board) == [policy_value_of |-> board]

\* an ExecutorHandle is dropped when its engine is dropped or its thread unwinds
HandleDropped(c) == pc[c] \in {"dropped", "panicked"}

\* the Executor (and with it every EvalPipe) is dropped when its thread ends
ExecutorDropped == evPc = "exited"

\* Executor::new: the batch size
ExecutorNew == batch_size = BatchSize

\* Executor::new with a capacity below the number of pipes
ExecutorNewSmall == batch_size = Min(SmallBatchSize, NumPipes)

EvalInit ==
  /\ pc = [c \in Pipes |-> "idle"]
  /\ sent = [c \in Pipes |-> <<>>]
  /\ rcvd = [c \in Pipes |-> <<>>]
  /\ reqCh = [c \in Pipes |-> <<>>]
  /\ replyCh = [c \in Pipes |-> <<>>]
  /\ evPc = "while"
  /\ sweepIdx = 0
  /\ foundAnything = TRUE
  /\ inWaiting = <<>>
  /\ indices = <<>>
  /\ outputs = <<>>
  /\ slot = 0
  /\ pulled = [c \in Pipes |-> 0]
  /\ replied = [c \in Pipes |-> 0]
  /\ batches = 0
  /\ lost = <<>>


(***************************************************************************)
(* The clients: the evaluator protocol of Engine::search and               *)
(* Engine::do_sesb (send the board, then block on the reply).              *)
(***************************************************************************)
\* selection and expansion are done, the board to submit is ready
ClientPrepare(c) ==
  /\ pc[c] = "idle"
  /\ Len(sent[c]) < MaxSubmit
  /\ pc' = [pc EXCEPT ![c] = "send"]
  /\ UNCHANGED <<sent, rcvd, reqCh, replyCh, evPc, sweepIdx, foundAnything,
                 inWaiting, indices, outputs, slot, pulled, replied, batches, lost>>
  /\ UNCHANGED <<treeVars, limVars, ugiVars, timeVars, genVars, parVars, execVars, arenaVars>>

\* executor.sender.send(board).expect("failed to send board to executor")
ClientSend(c) ==
  /\ pc[c] = "send"
  /\ IF ExecutorDropped
       THEN /\ pc' = [pc EXCEPT ![c] = "panicked"]
            /\ UNCHANGED <<sent, reqCh>>
       ELSE /\ Len(reqCh[c]) < 1
            /\ reqCh' = [reqCh EXCEPT ![c] = Append(@, Board(c, Len(sent[c]) + 1))]
            /\ sent' = [sent EXCEPT ![c] = Append(@, Board(c, Len(sent[c]) + 1))]
            /\ pc' = [pc EXCEPT ![c] = "recv"]
  /\ UNCHANGED <<rcvd, replyCh, evPc, sweepIdx, foundAnything,
                 inWaiting, indices, outputs, slot, pulled, replied, batches, lost>>
  /\ UNCHANGED <<treeVars, limVars, ugiVars, timeVars, genVars, parVars, execVars, arenaVars>>

\* mutant of ClientRecv: the reply is read and left on the channel
ClientRecvPeek(c) ==
  /\ pc[c] = "recv"
  /\ replyCh[c] # <<>>
  /\ rcvd' = [rcvd EXCEPT ![c] = Append(@, Head(replyCh[c]))]
  /\ pc' = [pc EXCEPT ![c] = "idle"]
  /\ UNCHANGED <<sent, reqCh, replyCh, evPc, sweepIdx, foundAnything,
                 inWaiting, indices, outputs, slot, pulled, replied, batches, lost>>
  /\ UNCHANGED <<treeVars, limVars, ugiVars, timeVars, genVars, parVars, execVars, arenaVars>>

\* mutant of ClientRecv: a receive that does not notice that the sender is gone
ClientRecvNoDisconnect(c) ==
  /\ pc[c] = "recv"
  /\ replyCh[c] # <<>>
  /\ rcvd' = [rcvd EXCEPT ![c] = Append(@, Head(replyCh[c]))]
  /\ replyCh' = [replyCh EXCEPT ![c] = Tail(@)]
  /\ pc' = [pc EXCEPT ![c] = "idle"]
  /\ UNCHANGED <<sent, reqCh, evPc, sweepIdx, foundAnything,
                 inWaiting, indices, outputs, slot, pulled, replied, batches, lost>>
  /\ UNCHANGED <<treeVars, limVars, ugiVars, timeVars, genVars, parVars, execVars, arenaVars>>

\* executor.receiver.recv().expect("failed to receive value from executor")
ClientRecv(c) ==
  /\ pc[c] = "recv"
  /\ IF replyCh[c] # <<>>
       THEN /\ rcvd' = [rcvd EXCEPT ![c] = Append(@, Head(replyCh[c]))]
            /\ replyCh' = [replyCh EXCEPT ![c] = Tail(@)]
            /\ pc' = [pc EXCEPT ![c] = "idle"]
       ELSE /\ ExecutorDropped
            /\ pc' = [pc EXCEPT ![c] = "panicked"]
            /\ UNCHANGED <<rcvd, replyCh>>
  /\ UNCHANGED <<sent, reqCh, evPc, sweepIdx, foundAnything,
                 inWaiting, indices, outputs, slot, pulled, replied, batches, lost>>
  /\ UNCHANGED <<treeVars, limVars, ugiVars, timeVars, genVars, parVars, execVars, arenaVars>>

\* the engine and its ExecutorHandle go out of scope between two searches
ClientDrop(c) ==
  /\ pc[c] = "idle"
  /\ pc' = [pc EXCEPT ![c] = "dropped"]
  /\ UNCHANGED <<sent, rcvd, reqCh, replyCh, evPc, sweepIdx, foundAnything,
                 inWaiting, indices, outputs, slot, pulled, replied, batches, lost>>
  /\ UNCHANGED <<treeVars, limVars, ugiVars, timeVars, genVars, parVars, execVars, arenaVars>>

(***************************************************************************)
(* The executor thread: loop { pull()?; tick() }.                          *)
(***************************************************************************)
\* mutant of PullWhile: pull returns as soon as a board is waiting
PullWhileEager ==
  /\ evPc = "while"
  /\ IF foundAnything /\ inWaiting = <<>>
       THEN /\ foundAnything' = FALSE
            /\ sweepIdx' = 0
            /\ evPc' = "for"
       ELSE /\ evPc' = IF inWaiting # <<>> THEN "tick" ELSE "select"
            /\ UNCHANGED <<foundAnything, sweepIdx>>
  /\ UNCHANGED <<pc, sent, rcvd, reqCh, replyCh,
                 inWaiting, indices, outputs, slot, pulled, replied, batches, lost>>
  /\ UNCHANGED <<treeVars, limVars, ugiVars, timeVars, genVars, parVars, execVars, arenaVars>>

\* the head of the while loop of pull, and the return after it
PullWhile ==
  /\ evPc = "while"
  /\ IF foundAnything /\ Len(inWaiting) < batch_size
       THEN /\ foundAnything' = FALSE
            /\ sweepIdx' = 0
            /\ evPc' = "for"
       ELSE /\ evPc' = IF Len(inWaiting) >= batch_size THEN "tick" ELSE "select"
            /\ UNCHANGED <<foundAnything, sweepIdx>>
  /\ UNCHANGED <<pc, sent, rcvd, reqCh, replyCh,
                 inWaiting, indices, outputs, slot, pulled, replied, batches, lost>>
  /\ UNCHANGED <<treeVars, limVars, ugiVars, timeVars, genVars, parVars, execVars, arenaVars>>

\* one try_recv of the sweep over eval_pipes
PullTryRecv ==
  /\ evPc = "for"
  /\ LET c == sweepIdx IN
       /\ IF reqCh[c] # <<>>
            THEN /\ inWaiting' = Append(inWaiting, <<c, Head(reqCh[c])>>)
                 /\ reqCh' = [reqCh EXCEPT ![c] = Tail(@)]
                 /\ pulled' = [pulled EXCEPT ![c] = @ + 1]
                 /\ foundAnything' = TRUE
            ELSE UNCHANGED <<inWaiting, reqCh, pulled, foundAnything>>
       /\ sweepIdx' = sweepIdx + 1
       /\ evPc' = IF sweepIdx + 1 >= NumPipes THEN "while" ELSE "for"
  /\ UNCHANGED <<pc, sent, rcvd, replyCh, indices, outputs, slot, replied, batches, lost>>
  /\ UNCHANGED <<treeVars, limVars, ugiVars, timeVars, genVars, parVars, execVars, arenaVars>>

\* mutant of SelectReady: a select that also returns when nothing is ready
SelectReadyAny == Pipes

\* mutant of SelectReady: a disconnected pipe does not wake the select
SelectReadyBoardsOnly == {c \in Pipes : reqCh[c] # <<>>}

\* the operations of the Select of pull that are ready: a receive is ready
\* when a board is queued, and also when the channel is disconnected
SelectReady == {c \in Pipes : reqCh[c] # <<>> \/ HandleDropped(c)}

\* one round of the select loop of pull; an error ends the executor thread
PullSelect(c) ==
  /\ evPc = "select"
  /\ c \in SelectReady
  /\ IF reqCh[c] # <<>>
       THEN /\ inWaiting' = Append(inWaiting, <<c, Head(reqCh[c])>>)
            /\ reqCh' = [reqCh EXCEPT ![c] = Tail(@)]
            /\ pulled' = [pulled EXCEPT ![c] = @ + 1]
            /\ evPc' = IF Len(inWaiting) + 1 >= batch_size THEN "tick" ELSE "select"
            /\ UNCHANGED lost
       ELSE /\ evPc' = "exited"
            /\ lost' = inWaiting
            /\ inWaiting' = <<>>
            /\ UNCHANGED <<reqCh, pulled>>
  /\ UNCHANGED <<pc, sent, rcvd, replyCh, sweepIdx, foundAnything,
                 indices, outputs, slot, replied, batches>>
  /\ UNCHANGED <<treeVars, limVars, ugiVars, timeVars, genVars, parVars, execVars, arenaVars>>

\* tick up to the network call: drain the batch and evaluate it
TickEvaluate ==
  /\ evPc = "tick"
  /\ IF Len(inWaiting) < batch_size
       THEN \* drain(..batch_size) out of range panics
            /\ evPc' = "exited"
            /\ lost' = inWaiting
            /\ inWaiting' = <<>>
            /\ UNCHANGED <<indices, outputs, slot, batches>>
       ELSE /\ indices' = [i \in 1 .. batch_size |-> inWaiting[i][1]]
            /\ outputs' = [i \in 1 .. batch_size |-> Evaluate(inWaiting[i][2])]
            /\ inWaiting' = SubSeq(inWaiting, batch_size + 1, Len(inWaiting))
            /\ slot' = 0
            /\ batches' = batches + 1
            /\ evPc' = "fanout"
            /\ UNCHANGED lost
  /\ UNCHANGED <<pc, sent, rcvd, reqCh, replyCh, sweepIdx, foundAnything, pulled, replied>>
  /\ UNCHANGED <<treeVars, limVars, ugiVars, timeVars, genVars, parVars, execVars, arenaVars>>

\* mutants of ReplyPipe: always the pipe of slot 0; the slot taken for the pipe
ReplyPipeFirst(batch_index) == indices[1]
ReplyPipeSlot(batch_index) == batch_index

\* the pipe the output of a batch slot is sent to
ReplyPipe(batch_index) == indices[batch_index + 1]

\* one send of the fan-out loop of tick; after the last one pull starts again
TickSend ==
  /\ evPc = "fanout"
  /\ LET target == ReplyPipe(slot) IN
       IF HandleDropped(target)
         THEN \* send(..).unwrap() on a closed channel panics
              /\ evPc' = "exited"
              /\ lost' = inWaiting
              /\ inWaiting' = <<>>
              /\ UNCHANGED <<replyCh, replied, slot, foundAnything>>
         ELSE /\ Len(replyCh[target]) < 1
              /\ replyCh' = [replyCh EXCEPT ![target] = Append(@, outputs[slot + 1])]
              /\ replied' = [replied EXCEPT ![target] = @ + 1]
              /\ slot' = slot + 1
              /\ IF slot + 1 >= Len(indices)
                   THEN /\ evPc' = "while"
                        /\ foundAnything' = TRUE
                   ELSE UNCHANGED <<evPc, foundAnything>>
              /\ UNCHANGED <<inWaiting, lost>>
  /\ UNCHANGED <<pc, sent, rcvd, reqCh, sweepIdx, indices, outputs, pulled, batches>>
  /\ UNCHANGED <<treeVars, limVars, ugiVars, timeVars, genVars, parVars, execVars, arenaVars>>

(***************************************************************************)
(* The rules capability (GameImpl in game.rs).  The games of the           *)
(* repository live in other crates; the engine is generic over them.  The  *)
(* game of the model is a subtraction game: a move takes 1, 2 or 3 from a  *)
(* pile, the game is over when the pile is empty, and the last move        *)
(* decides the result, so that wins of either side and draws all occur.    *)
(***************************************************************************)
\* bounds: the largest pile a root position has, iterations run on one tree,
\* and the largest node cap a go command sets
MaxPile == 3
MaxIter == 4
MaxNodes == 2

Takes == {1, 2, 3}

\* GameImpl::POLICY_DIM
POLICY_DIM == Cardinality(Takes)

\* MovePolicyIndex::policy_index
PolicyIndex(mv) == mv - 1

OtherPlayer(p) == IF p = "First" THEN "Second" ELSE "First"

\* GameImpl::to_move
ToMove(pos) == pos.turn

\* GameImpl::outcome: "Ongoing" stands for None, "None" for a draw
Outcome(pos) ==
  IF pos.pile > 0 THEN "Ongoing"
  ELSE IF pos.last = 1 THEN OtherPlayer(pos.turn)
  ELSE IF pos.last = 3 THEN pos.turn
  ELSE "None"

\* GameImpl::make_move
MakeMove(pos, mv) == [pile |-> pos.pile - mv, turn |-> OtherPlayer(pos.turn), last |-> mv]

\* GameImpl::generate_moves: the legal moves in the order they are produced
GenerateMoves(pos) ==
  LET n == IF Outcome(pos) = "Ongoing" THEN Min(pos.pile, POLICY_DIM) ELSE 0
  IN  [i \in 1 .. n |-> i]

\* G::default(), the starting position
DefaultPosition == [pile |-> MaxPile, turn |-> "First", last |-> 0]

\* the positions set_position is called with
RootPositions ==
  {[pile |-> p, turn |-> "First", last |-> 0] : p \in 1 .. MaxPile}
  \cup {[pile |-> 0, turn |-> "First", last |-> l] : l \in Takes}

(***************************************************************************)
(* What the network returns for one board.  Values are counted in units of *)
(* 0.5, logits in units of ln 2, so that exp(l - max) is a power of two.   *)
(***************************************************************************)
\* engine.rs:236  the value 0.5, the unit all values are counted in
Half == 1
One == 2 * Half

\* the values the network returns, all within [0, 1]
EvalValues == 0 .. One

Logits == {0, 1}

\* the raw policies the network returns
Policies == {[i \in 1 .. POLICY_DIM |-> 0],
             [i \in 1 .. POLICY_DIM |-> IF i = 2 THEN 1 ELSE 0]}

\* the largest difference of two logits
LogitSpan ==
  (CHOOSE x \in Logits : \A y \in Logits : x >= y)
  - (CHOOSE x \in Logits : \A y \in Logits : x <= y)

RECURSIVE Pow2(_)
Pow2(k) == IF k <= 0 THEN 1 ELSE 2 * Pow2(k - 1)

\* (l - max_logit).exp(), times 2^LogitSpan
ExpScaled(d) == Pow2(d + LogitSpan)

RECURSIVE SumSeq(_)
SumSeq(s) == IF s = <<>> THEN 0 ELSE Head(s) + SumSeq(Tail(s))

RECURSIVE MaxSeq(_, _)
MaxSeq(s, lo) == IF s = <<>> THEN lo ELSE MaxSeq(Tail(s), IF Head(s) > lo THEN Head(s) ELSE lo)

(***************************************************************************)
(* Handle (arena.rs) and Node (node.rs).                                   *)
(***************************************************************************)
\* arena.rs:11  Handle::null() is u32::MAX, the largest index; here the
\* largest number the model checker counts to
Null == 2147483647

\* Handle::is_null
IsNull(h) == h = Null

\* tree[i] of the source: the storage is indexed from 0
Nd(t, i) == t[i + 1]

\* Node::edges is None
NoEdges == [some |-> FALSE, list |-> <<>>]

\* mutant of NewNode: the index of the inbound edge is not stored
NewNodeIndexZero(parent, edge_index) ==
  [wl |-> 0, edges |-> NoEdges, parent |-> parent, child |-> Null, sibling |-> Null,
   visits |-> 0, index |-> 0, terminal_type |-> "NonTerminal",
   upper_bound |-> "Ongoing", lower_bound |-> "Ongoing"]

\* Node::new
NewNode(parent, edge_index) ==
  [wl |-> 0, edges |-> NoEdges, parent |-> parent, child |-> Null, sibling |-> Null,
   visits |-> 0, index |-> edge_index, terminal_type |-> "NonTerminal",
   upper_bound |-> "Ongoing", lower_bound |-> "Ongoing"]

\* the GameResult of an outcome
GameResultOf(outcome) ==
  IF outcome = "None" THEN "Draw"
  ELSE IF outcome = "First" THEN "FirstPlayerWin" ELSE "SecondPlayerWin"

\* mutant of NodeExpand: the edge list is not stored
NodeExpandNoEdges(node, pos, policy) ==
  IF Outcome(pos) # "Ongoing"
    THEN [node EXCEPT !.terminal_type = "Terminal",
                      !.upper_bound = GameResultOf(Outcome(pos)),
                      !.lower_bound = GameResultOf(Outcome(pos))]
    ELSE node

\* Node::expand: the edge list, with the softmax of the logits of the legal
\* moves as probabilities (a probability is the fraction num / den), and the
\* terminal mark of a finished game
NodeExpand(node, pos, policy) ==
  LET moves == GenerateMoves(pos)
      logit == [i \in 1 .. Len(moves) |-> policy[PolicyIndex(moves[i]) + 1]]
      max_logit == MaxSeq(logit, -1000)
      exps == [i \in 1 .. Len(moves) |-> ExpScaled(logit[i] - max_logit)]
      total == SumSeq(exps)
      list == [i \in 1 .. Len(moves) |->
                 [pov_move |-> moves[i], probability |-> [num |-> exps[i], den |-> total]]]
      expanded == [node EXCEPT !.edges = [some |-> TRUE, list |-> list]]
  IN  IF Outcome(pos) # "Ongoing"
        THEN [expanded EXCEPT !.terminal_type = "Terminal",
                              !.upper_bound = GameResultOf(Outcome(pos)),
                              !.lower_bound = GameResultOf(Outcome(pos))]
        ELSE expanded

\* Node::check_game_over, called by Engine::select on a node with one visit
CheckGameOver(node, pos) ==
  IF Outcome(pos) # "Ongoing"
    THEN [node EXCEPT !.terminal_type = "Terminal",
                      !.upper_bound = GameResultOf(Outcome(pos)),
                      !.lower_bound = GameResultOf(Outcome(pos))]
    ELSE node

\* Node::is_terminal
IsTerminal(node) == node.terminal_type = "Terminal"

\* mutant of AddVisit: the value is added, the visit is not counted
AddVisitNoCount(node, value) == [node EXCEPT !.wl = @ + value]

\* Node::add_visit
AddVisit(node, value) == [node EXCEPT !.wl = @ + value, !.visits = @ + 1]

\* mutant of Flip: the negamax sign change instead of 1 - value
FlipNegate(value) == 0 - value

\* value = 1.0 - value
Flip(value) == One - value

\* mutant of Backpropagate: every ancestor is credited with the leaf's value
RECURSIVE BackpropagateNoFlip(_, _, _)
BackpropagateNoFlip(t, node, value) ==
  LET t1 == [t EXCEPT ![node + 1] = AddVisit(@, value)]
      parent == Nd(t, node).parent
  IN  IF IsNull(parent) THEN t1 ELSE BackpropagateNoFlip(t1, parent, value)

\* mutant of Backpropagate: the leaf is credited, its ancestors are not
BackpropagateLeafOnly(t, node, value) == [t EXCEPT ![node + 1] = AddVisit(@, value)]

\* mutant of Backpropagate: every node of the tree is credited
BackpropagateWholeTree(t, node, value) ==
  [k \in 1 .. Len(t) |-> AddVisit(t[k], value)]

\* Engine::backpropagate
RECURSIVE Backpropagate(_, _, _)
Backpropagate(t, node, value) ==
  LET t1 == [t EXCEPT ![node + 1] = AddVisit(@, value)]
      parent == Nd(t, node).parent
  IN  IF IsNull(parent) THEN t1 ELSE Backpropagate(t1, parent, Flip(value))

(***************************************************************************)
(* PUCT selection.  A score is a + X * b with fractions a and b and        *)
(* X = c_puct * sqrt(visits + 1); two scores are compared exactly, by      *)
(* comparing squares.                                                      *)
(***************************************************************************)
\* params.rs:19  c_puct: 2.50, as the fraction CPuctNum / CPuctDen
CPuctNum == 5
CPuctDen == 2

\* Params::default()
ParamsDefault == c_puct = [num |-> CPuctNum, den |-> CPuctDen]

Abs(x) == IF x < 0 THEN 0 - x ELSE x

RECURSIVE Gcd(_, _)
Gcd(a, b) == IF b = 0 THEN a ELSE Gcd(b, a % b)

\* the fraction n / d (d > 0) in lowest terms
Frac(n, d) ==
  LET g == Gcd(Abs(n), d) IN [num |-> n \div g, den |-> d \div g]

\* x - y for fractions
FracSub(x, y) == Frac(x.num * y.den - y.num * x.den, x.den * y.den)

\* s1 > s2 for the scores of a node with the given number of visits
ScoreGreater(s1, s2, visits) ==
  LET A == FracSub(s1.a, s2.a)
      B == FracSub(s1.b, s2.b)
      xb == c_puct.num * c_puct.num * (visits + 1) * B.num * B.num * A.den * A.den
      xa == c_puct.den * c_puct.den * A.num * A.num * B.den * B.den
  IN  IF A.num >= 0 /\ B.num >= 0 THEN A.num > 0 \/ B.num > 0
      ELSE IF A.num <= 0 /\ B.num <= 0 THEN FALSE
      ELSE IF B.num > 0 THEN xb > xa
      ELSE xa > xb

\* the handles reached from h by sibling links, at most fuel of them
RECURSIVE SiblingWalk(_, _, _)
SiblingWalk(t, h, fuel) ==
  IF IsNull(h) \/ fuel = 0 THEN <<>>
  ELSE <<h>> \o SiblingWalk(t, Nd(t, h).sibling, fuel - 1)

\* the values array of uct_best: for an edge, the child found for it (the
\* last one of the sibling list, were there several), or Null
ChildOfEdge(t, node_idx, edge) ==
  LET walk == SiblingWalk(t, Nd(t, node_idx).child, Len(t))
      hits == {i \in 1 .. Len(walk) : Nd(t, walk[i]).index = edge}
  IN  IF hits = {} THEN Null ELSE walk[CHOOSE i \in hits : \A j \in hits : j <= i]

\* first_play_urgency = if visits > 0 { 1 - winrate } else { 0.5 }
FirstPlayUrgency(node) ==
  IF node.visits > 0
    THEN Frac(One * node.visits - node.wl, One * node.visits)
    ELSE Frac(Half, One)

\* the score of edge idx (counted from 0) of node node_idx
EdgeScore(t, node_idx, idx) ==
  LET node == Nd(t, node_idx)
      p == node.edges.list[idx + 1].probability
      h == ChildOfEdge(t, node_idx, idx)
  IN  IF IsNull(h)
        THEN [a |-> FirstPlayUrgency(node), b |-> Frac(p.num, p.den), nan |-> FALSE]
        ELSE IF Nd(t, h).visits = 0
          THEN [a |-> Frac(0, 1), b |-> Frac(0, 1), nan |-> TRUE]
          ELSE [a |-> Frac(Nd(t, h).wl, One * Nd(t, h).visits),
                b |-> Frac(p.num, p.den * (1 + Nd(t, h).visits)),
                nan |-> FALSE]

\* mutant of UctScan: an edge whose score equals the best one replaces it
RECURSIVE UctScanLastWins(_, _, _, _)
UctScanLastWins(t, node_idx, idx, best) ==
  IF idx >= Len(Nd(t, node_idx).edges.list) THEN best
  ELSE LET s == EdgeScore(t, node_idx, idx)
           better == /\ ~s.nan
                     /\ \/ best < 0
                        \/ ~ScoreGreater(EdgeScore(t, node_idx, best), s, Nd(t, node_idx).visits)
       IN  UctScanLastWins(t, node_idx, idx + 1, IF better THEN idx ELSE best)

\* the loop of uct_best over the edges: best is the index of the best edge so
\* far, or -1 while best_value is still negative infinity
RECURSIVE UctScan(_, _, _, _)
UctScan(t, node_idx, idx, best) ==
  IF idx >= Len(Nd(t, node_idx).edges.list) THEN best
  ELSE LET s == EdgeScore(t, node_idx, idx)
           better == /\ ~s.nan
                     /\ \/ best < 0
                        \/ ScoreGreater(s, EdgeScore(t, node_idx, best), Nd(t, node_idx).visits)
       IN  UctScan(t, node_idx, idx + 1, IF better THEN idx ELSE best)

\* mutant of UctBest: the child handle is never looked up
UctBestDangling(t, node_idx) ==
  LET best == UctScan(t, node_idx, 0, -1)
  IN  [edge |-> IF best < 0 THEN 0 ELSE best, child |-> Null]

\* Engine::uct_best: the best edge and its child (Null if dangling)
UctBest(t, node_idx) ==
  LET best == UctScan(t, node_idx, 0, -1)
  IN  [edge |-> IF best < 0 THEN 0 ELSE best,
       child |-> IF best < 0 THEN Null ELSE ChildOfEdge(t, node_idx, best)]

\* Engine::select, from node_idx at position pos
RECURSIVE Select(_, _, _)
Select(t, node_idx, pos) ==
  LET t1 == IF Nd(t, node_idx).visits = 1
              THEN [t EXCEPT ![node_idx + 1] = CheckGameOver(@, pos)]
              ELSE t
  IN  IF IsTerminal(Nd(t1, node_idx))
        THEN [kind |-> "Terminal", node_index |-> node_idx, edge_index |-> 0,
              board_state |-> pos, tree |-> t1]
      ELSE IF ~Nd(t1, node_idx).edges.some
        THEN \* uct_best panics on an unexpanded node
             [kind |-> "Panic", node_index |-> node_idx, edge_index |-> 0,
              board_state |-> pos, tree |-> t1]
      ELSE LET b == UctBest(t1, node_idx) IN
           IF IsNull(b.child)
             THEN [kind |-> "NonTerminal", node_index |-> node_idx, edge_index |-> b.edge,
                   board_state |-> pos, tree |-> t1]
             ELSE Select(t1, b.child,
                         MakeMove(pos, Nd(t1, node_idx).edges.list[b.edge + 1].pov_move))

\* the last child of expand: the end of the sibling list starting at child
RECURSIVE LastChild(_, _, _)
LastChild(t, child, fuel) ==
  IF IsNull(child) \/ fuel = 0 THEN child
  ELSE IF IsNull(Nd(t, child).sibling) THEN child
  ELSE LastChild(t, Nd(t, child).sibling, fuel - 1)

\* mutant of EngineExpand: the new node is always written to first_child
EngineExpandAtHead(t, node_idx, edge_index) ==
  LET handle == Len(t)
      pushed == Append(t, NewNode(node_idx, edge_index))
  IN  [pushed EXCEPT ![node_idx + 1].child = handle]

\* mutant of EngineExpand: the last sibling takes the new node's edge index too
EngineExpandRelabel(t, node_idx, edge_index) ==
  LET last == LastChild(t, Nd(t, node_idx).child, Len(t))
      handle == Len(t)
      pushed == Append(t, NewNode(node_idx, edge_index))
  IN  IF IsNull(last)
        THEN [pushed EXCEPT ![node_idx + 1].child = handle]
        ELSE [pushed EXCEPT ![last + 1].sibling = handle, ![last + 1].index = edge_index]

\* Engine::expand: the tree with a new node for the edge, linked at the end
\* of the sibling list of node_idx; the handle of the new node is Len(t)
EngineExpand(t, node_idx, edge_index) ==
  LET last == LastChild(t, Nd(t, node_idx).child, Len(t))
      handle == Len(t)
      pushed == Append(t, NewNode(node_idx, edge_index))
  IN  IF IsNull(last)
        THEN [pushed EXCEPT ![node_idx + 1].child = handle]
        ELSE [pushed EXCEPT ![last + 1].sibling = handle]

\* mutant of TerminalValue: the value for the player to move
TerminalValueOfMover(pos) ==
  IF Outcome(pos) = "None" THEN Half
  ELSE IF Outcome(pos) = ToMove(pos) THEN One ELSE 0

\* the value of a finished game, for the player who moved into it
TerminalValue(pos) ==
  IF Outcome(pos) = "None" THEN Half
  ELSE IF Outcome(pos) = ToMove(pos) THEN 0 ELSE One

\* mutant of SesbEvaluated: a new node of a finished game is credited with
\* the result of the game, not with the value of the network
SesbEvaluatedByOutcome(sel, policy, value) ==
  LET best_node == sel.node_index
      t2 == EngineExpand(sel.tree, best_node, sel.edge_index)
      new_node == Len(sel.tree)
      mv == Nd(t2, best_node).edges.list[sel.edge_index + 1].pov_move
      board_state == MakeMove(sel.board_state, mv)
      t3 == [t2 EXCEPT ![new_node + 1] = NodeExpand(@, board_state, policy)]
  IN  Backpropagate(t3, new_node,
                    IF Outcome(board_state) = "Ongoing" THEN One - value
                    ELSE TerminalValue(board_state))

\* Engine::do_sesb for a selection that ends at a dangling edge; policy and
\* value are the reply of the evaluator for the new board
SesbEvaluated(sel, policy, value) ==
  LET best_node == sel.node_index
      t2 == EngineExpand(sel.tree, best_node, sel.edge_index)
      new_node == Len(sel.tree)
      mv == Nd(t2, best_node).edges.list[sel.edge_index + 1].pov_move
      board_state == MakeMove(sel.board_state, mv)
      t3 == [t2 EXCEPT ![new_node + 1] = NodeExpand(@, board_state, policy)]
  IN  Backpropagate(t3, new_node, One - value)

\* Engine::do_sesb for a selection that ends at a terminal node
SesbTerminal(sel) ==
  Backpropagate(sel.tree, sel.node_index, TerminalValue(sel.board_state))

\* the board do_sesb makes for the node it adds: the move of the selected
\* edge, made on the board the selection ended with
SesbBoard(sel) ==
  MakeMove(sel.board_state,
           Nd(sel.tree, sel.node_index).edges.list[sel.edge_index + 1].pov_move)

\* best_move is None: no child was seen
NoMove == [some |-> FALSE, move |-> 0, visits |-> -1]

\* mutant of BestScan: a child with as many visits as the best one replaces it
RECURSIVE BestScanLastWins(_, _, _, _)
BestScanLastWins(t, edge, best, fuel) ==
  IF IsNull(edge) \/ fuel = 0 THEN best
  ELSE LET visits == Nd(t, edge).visits
           mv == Nd(t, 0).edges.list[Nd(t, edge).index + 1].pov_move
       IN  BestScanLastWins(t, Nd(t, edge).sibling,
                            IF visits >= best.visits
                              THEN [some |-> TRUE, move |-> mv, visits |-> visits]
                              ELSE best,
                            fuel - 1)

\* the while loop of Node::best_move on the root: edge is the handle the
\* loop is at, best holds best_move and best_visits
RECURSIVE BestScan(_, _, _, _)
BestScan(t, edge, best, fuel) ==
  IF IsNull(edge) \/ fuel = 0 THEN best
  ELSE LET visits == Nd(t, edge).visits
           mv == Nd(t, 0).edges.list[Nd(t, edge).index + 1].pov_move
       IN  BestScan(t, Nd(t, edge).sibling,
                    IF visits > best.visits
                      THEN [some |-> TRUE, move |-> mv, visits |-> visits]
                      ELSE best,
                    fuel - 1)

\* Node::best_move of the root; best_move.expect panics when some is FALSE
BestMove(t) == BestScan(t, Nd(t, 0).child, NoMove, Len(t))

\* mutant of DistScan: the slots are counted from the first legal move on,
\* so that the vector has one slot for each edge of the root
RECURSIVE DistScanEdges(_, _, _, _)
DistScanEdges(t, edge, dist, fuel) ==
  IF IsNull(edge) \/ fuel = 0
    THEN SubSeq(dist, 1, Len(Nd(t, 0).edges.list))
    ELSE DistScanEdges(t, Nd(t, edge).sibling,
                       [dist EXCEPT ![Nd(t, edge).index + 1] = Nd(t, edge).visits],
                       fuel - 1)

\* the while loop of Node::dist on the root; slot i of the vector is dist[i + 1]
RECURSIVE DistScan(_, _, _, _)
DistScan(t, edge, dist, fuel) ==
  IF IsNull(edge) \/ fuel = 0 THEN dist
  ELSE LET mv == Nd(t, 0).edges.list[Nd(t, edge).index + 1].pov_move
       IN  DistScan(t, Nd(t, edge).sibling,
                    [dist EXCEPT ![PolicyIndex(mv) + 1] = Nd(t, edge).visits],
                    fuel - 1)

\* Node::dist of the root
Dist(t) == DistScan(t, Nd(t, 0).child, [i \in 1 .. POLICY_DIM |-> 0], Len(t))

\* lastGo while no go call has returned since the last set_position
NoResults == [returned |-> FALSE, best_move |-> 0, root_dist |-> <<>>]

(***************************************************************************)
(* Limits (timemgmt.rs): an optional node cap and an optional clock.       *)
(***************************************************************************)
\* bounds: the largest amount (of nodes, of milliseconds) a specifier
\* carries, and the largest number of specifiers of one LIMITS text
MaxAmount == 1
MaxSpecifiers == 3

Amounts == 0 .. MaxAmount

\* Option: None and Some(v)
None == [some |-> FALSE]
Some(v) == [some |-> TRUE, val |-> v]

\* Clock::Fixed and Clock::Dynamic
Fixed(millis) == [kind |-> "Fixed", millis |-> millis]
Dynamic(p1_base, p1_inc, p2_base, p2_inc) ==
  [kind |-> "Dynamic", p1_base |-> p1_base, p1_inc |-> p1_inc,
   p2_base |-> p2_base, p2_inc |-> p2_inc]

\* Limits::movetime, Limits::nodes, Limits::time, Limits::infinite
LimitsMovetime(millis) == [nodes |-> None, time |-> Some(Fixed(millis))]
LimitsNodes(nodes) == [nodes |-> Some(nodes), time |-> None]
LimitsTime(our_base, our_increment, their_base, their_increment) ==
  [nodes |-> None,
   time |-> Some(Dynamic(our_base, our_increment, their_base, their_increment))]
LimitsInfinite == [nodes |-> None, time |-> None]

\* mutant of LimitsAdd: the left operand wins where it is set
LimitsAddLeftBiased(self, other) ==
  [nodes |-> IF self.nodes.some THEN self.nodes ELSE other.nodes,
   time |-> IF self.time.some THEN self.time ELSE other.time]

\* impl Add for Limits
LimitsAdd(self, other) ==
  [nodes |-> IF other.nodes.some THEN other.nodes ELSE self.nodes,
   time |-> IF other.time.some THEN other.time ELSE self.time]

\* a word of the text: a keyword, or a number that parses as u64
Kw(k) == <<"kw", k>>
Num(n) == <<"num", n>>
IsKw(w, k) == w[1] = "kw" /\ w[2] = k
IsNum(w) == w[1] = "num"

\* the result of from_str: Ok(limits) or Err
ParseErr == [ok |-> FALSE, limits |-> LimitsInfinite]
ParseOk(l) == [ok |-> TRUE, limits |-> l]

\* components.into_iter().fold(Self::infinite(), |acc, x| acc + x)
RECURSIVE FoldAdd(_, _)
FoldAdd(acc, components) ==
  IF components = <<>> THEN acc
  ELSE FoldAdd(LimitsAdd(acc, Head(components)), Tail(components))

\* the word at position i is a number (words.next() is Some and parses)
NumAt(ws, i) == i <= Len(ws) /\ IsNum(ws[i])

\* the while loop of from_str from word i on; components is the Vec so far
RECURSIVE ParseWords(_, _, _)
ParseWords(ws, i, components) ==
  IF i > Len(ws) THEN ParseOk(FoldAdd(LimitsInfinite, components))
  ELSE IF IsKw(ws[i], "nodes")
    THEN IF NumAt(ws, i + 1)
           THEN ParseWords(ws, i + 2, Append(components, LimitsNodes(ws[i + 1][2])))
           ELSE ParseErr
  ELSE IF IsKw(ws[i], "movetime")
    THEN IF NumAt(ws, i + 1)
           THEN ParseWords(ws, i + 2, Append(components, LimitsMovetime(ws[i + 1][2])))
           ELSE ParseErr
  ELSE IF IsKw(ws[i], "p1time")
    THEN IF /\ NumAt(ws, i + 1)
            /\ i + 2 <= Len(ws) /\ IsKw(ws[i + 2], "p2time")
            /\ NumAt(ws, i + 3)
            /\ i + 4 <= Len(ws) /\ IsKw(ws[i + 4], "p1inc")
            /\ NumAt(ws, i + 5)
            /\ i + 6 <= Len(ws) /\ IsKw(ws[i + 6], "p2inc")
            /\ NumAt(ws, i + 7)
           THEN ParseWords(ws, i + 8,
                           Append(components,
                                  LimitsTime(ws[i + 1][2], ws[i + 5][2],
                                             ws[i + 3][2], ws[i + 7][2])))
           ELSE ParseErr
  ELSE IF IsKw(ws[i], "infinite")
    THEN ParseWords(ws, i + 1, Append(components, LimitsInfinite))
  ELSE ParseErr

\* mutant of LimitsFromStr: a text that does not parse gives the default
\* limits (parse().unwrap_or_default())
LimitsFromStrOrDefault(ws) ==
  IF ParseWords(ws, 1, <<>>).ok THEN ParseWords(ws, 1, <<>>) ELSE ParseOk(LimitsInfinite)

\* impl FromStr for Limits
LimitsFromStr(ws) == ParseWords(ws, 1, <<>>)

\* the clocks of the model: every fixed clock up to the bound, and the two
\* dynamic clocks of the tests of timemgmt.rs and their mirror images
Clocks ==
  {Fixed(m) : m \in Amounts}
  \cup {Dynamic(MaxAmount, 0, MaxAmount + 1, 1), Dynamic(MaxAmount + 1, 1, MaxAmount, 0)}

\* the limits + is applied to
LimitsValues ==
  {[nodes |-> n, time |-> t] :
     n \in {None} \cup {Some(a) : a \in Amounts},
     t \in {None} \cup {Some(c) : c \in Clocks}}

\* the specifiers of the LIMITS grammar
Specifiers ==
  {[spec |-> "nodes", nodes |-> a] : a \in Amounts}
  \cup {[spec |-> "movetime", millis |-> a] : a \in Amounts}
  \cup {[spec |-> "time", clock |-> c] : c \in {c \in Clocks : c.kind = "Dynamic"}}
  \cup {[spec |-> "infinite"]}

\* the words one specifier is written with
WordsOf(sp) ==
  IF sp.spec = "nodes" THEN <<Kw("nodes"), Num(sp.nodes)>>
  ELSE IF sp.spec = "movetime" THEN <<Kw("movetime"), Num(sp.millis)>>
  ELSE IF sp.spec = "time"
    THEN <<Kw("p1time"), Num(sp.clock.p1_base), Kw("p2time"), Num(sp.clock.p2_base),
           Kw("p1inc"), Num(sp.clock.p1_inc), Kw("p2inc"), Num(sp.clock.p2_inc)>>
  ELSE <<Kw("infinite")>>

\* the words of a LIMITS text written from a sequence of specifiers
RECURSIVE Render(_)
Render(sps) == IF sps = <<>> THEN <<>> ELSE WordsOf(Head(sps)) \o Render(Tail(sps))

\* the sequences of at most n specifiers
RECURSIVE SpecifierSeqs(_)
SpecifierSeqs(n) ==
  IF n = 0 THEN {<<>>}
  ELSE LET shorter == SpecifierSeqs(n - 1)
       IN  shorter \cup {Append(q, sp) : q \in shorter, sp \in Specifiers}

\* the component from_str pushes for a specifier
LimitsOf(sp) ==
  IF sp.spec = "nodes" THEN LimitsNodes(sp.nodes)
  ELSE IF sp.spec = "movetime" THEN LimitsMovetime(sp.millis)
  ELSE IF sp.spec = "time"
    THEN LimitsTime(sp.clock.p1_base, sp.clock.p1_inc, sp.clock.p2_base, sp.clock.p2_inc)
  ELSE LimitsInfinite

\* the value of the specifiers: + over them from the left, from infinite
RECURSIVE ValueOf(_)
ValueOf(sps) ==
  IF sps = <<>> THEN LimitsInfinite
  ELSE LimitsAdd(ValueOf(SubSeq(sps, 1, Len(sps) - 1)), LimitsOf(sps[Len(sps)]))

\* nothing has been computed yet
NotYet == [done |-> FALSE]
Done(v) == [done |-> TRUE, val |-> v]

\* no Limits value is being combined or parsed
LimitsIdle ==
  /\ lhs = LimitsInfinite
  /\ rhs = LimitsInfinite
  /\ sum = NotYet
  /\ specifiers = <<>>
  /\ words = <<>>
  /\ parsed = NotYet

\* any two operands of +; or a LIMITS text, whole or cut short by one word,
\* and the operands of the last + of its fold
LimitsInit ==
  /\ sum = NotYet
  /\ parsed = NotYet
  /\ \/ /\ lhs \in LimitsValues
        /\ rhs \in LimitsValues
        /\ specifiers = <<>>
        /\ words = <<>>
     \/ /\ specifiers \in SpecifierSeqs(MaxSpecifiers) \ {<<>>}
        /\ lhs = ValueOf(SubSeq(specifiers, 1, Len(specifiers) - 1))
        /\ rhs = LimitsOf(specifiers[Len(specifiers)])
        /\ words \in {Render(specifiers),
                      SubSeq(Render(specifiers), 1, Len(Render(specifiers)) - 1)}

\* self + rhs
Combine ==
  /\ sum = NotYet
  /\ sum' = Done(LimitsAdd(lhs, rhs))
  /\ UNCHANGED <<lhs, rhs, specifiers, words, parsed>>
  /\ UNCHANGED <<evalVars, treeVars, ugiVars, timeVars, genVars, parVars, execVars, arenaVars>>

\* limits_text.parse()
Parse ==
  /\ parsed = NotYet
  /\ parsed' = Done(LimitsFromStr(words))
  /\ UNCHANGED <<lhs, rhs, sum, specifiers, words>>
  /\ UNCHANGED <<evalVars, treeVars, ugiVars, timeVars, genVars, parVars, execVars, arenaVars>>

(***************************************************************************)
(* The clock (timemgmt.rs): Clock::time_limit and Limits::is_out_of_time.  *)
(* The u64 of the source is a word of WordBits bits here; 50, 20, 3 and 4  *)
(* are the numbers of the source.  Arithmetic that leaves the word panics  *)
(* in a build with overflow checks and wraps in a build without them.      *)
(***************************************************************************)
\* bound: the width of the word that stands for u64
WordBits == 8

\* u64::MAX + 1 and u64::MAX
WordModulus == 2 ^ WordBits
U64Max == WordModulus - 1

\* timemgmt.rs:34  the milliseconds of base the budget leaves
RESERVE_MS == 50
\* timemgmt.rs:34  the budget is base / 20 + 3 * increment / 4
BASE_DIVISOR == 20
INC_NUM == 3
INC_DEN == 4

\* a call that returned v, and a call that panicked
Returned(v) == [panicked |-> FALSE, val |-> v]
Panicked == [panicked |-> TRUE]

\* Clock::time_limit
ClockTimeLimit(clock, is_p1, checks) ==
  IF clock.kind = "Fixed" THEN Returned(clock.millis)
  ELSE LET our_base == IF is_p1 THEN clock.p1_base ELSE clock.p2_base
           our_increment == IF is_p1 THEN clock.p1_inc ELSE clock.p2_inc
           tripled == INC_NUM * our_increment
           budget == our_base \div BASE_DIVISOR + (tripled % WordModulus) \div INC_DEN
           kept == our_base - RESERVE_MS
       IN  IF checks /\ (tripled > U64Max \/ budget > U64Max \/ kept < 0)
             THEN Panicked
             ELSE Returned(Min(budget % WordModulus, kept % WordModulus))

\* mutant of LimitsIsOutOfTime: a node cap that is not reached ends the test
LimitsIsOutOfTimeCapOnly(l, searched, elapsed, is_p1, checks) ==
  IF l.nodes.some THEN Returned(searched >= l.nodes.val)
  ELSE IF l.time.some
    THEN LET time_limit == ClockTimeLimit(l.time.val, is_p1, checks)
         IN  IF time_limit.panicked THEN Panicked
             ELSE Returned(elapsed >= time_limit.val)
    ELSE Returned(FALSE)

\* Limits::is_out_of_time
LimitsIsOutOfTime(l, searched, elapsed, is_p1, checks) ==
  IF l.nodes.some /\ searched >= l.nodes.val THEN Returned(TRUE)
  ELSE IF l.time.some
    THEN LET time_limit == ClockTimeLimit(l.time.val, is_p1, checks)
         IN  IF time_limit.panicked THEN Panicked
             ELSE Returned(elapsed >= time_limit.val)
    ELSE Returned(FALSE)

\* the increments, the elapsed times and the clocks the calls are made with:
\* every base, and the increments around u64::MAX / 3
IncSamples == {0, 1, 4, U64Max \div INC_NUM, U64Max \div INC_NUM + 1, U64Max}
ElapsedSamples == {0, 5, 12, U64Max}
TimeClocks ==
  {Fixed(m) : m \in {0, 5, U64Max}}
  \cup {Dynamic(b, i, 2 * RESERVE_MS, 0) : b \in 0 .. U64Max, i \in IncSamples}
TimeLimitsValues ==
  [nodes : {None, Some(1)}, time : {None} \cup {Some(c) : c \in TimeClocks}]

\* no call is being made
TimeIdle ==
  /\ tmLimits = LimitsInfinite
  /\ tmNodes = 0
  /\ tmElapsed = 0
  /\ tmIsP1 = TRUE
  /\ overflowChecks = TRUE
  /\ timeLimit = NotYet
  /\ outOfTime = NotYet

\* the arguments of the calls
TimeInit ==
  /\ tmLimits \in TimeLimitsValues
  /\ tmNodes \in {0, 1}
  /\ tmElapsed \in ElapsedSamples
  /\ tmIsP1 \in BOOLEAN
  /\ overflowChecks \in BOOLEAN
  /\ timeLimit = NotYet
  /\ outOfTime = NotYet

\* clock.time_limit(is_p1)
TimeLimitCall ==
  /\ timeLimit = NotYet
  /\ tmLimits.time.some
  /\ timeLimit' = Done(ClockTimeLimit(tmLimits.time.val, tmIsP1, overflowChecks))
  /\ UNCHANGED <<tmLimits, tmNodes, tmElapsed, tmIsP1, overflowChecks, outOfTime>>
  /\ UNCHANGED <<evalVars, treeVars, limVars, ugiVars, genVars, parVars, execVars, arenaVars>>

\* limits.is_out_of_time(nodes_searched, elapsed, is_p1)
IsOutOfTimeCall ==
  /\ outOfTime = NotYet
  /\ outOfTime' = Done(LimitsIsOutOfTime(tmLimits, tmNodes, tmElapsed, tmIsP1,
                                         overflowChecks))
  /\ UNCHANGED <<tmLimits, tmNodes, tmElapsed, tmIsP1, overflowChecks, timeLimit>>
  /\ UNCHANGED <<evalVars, treeVars, limVars, ugiVars, genVars, parVars, execVars, arenaVars>>

(***************************************************************************)
(* The engine: set_position, go, and the iterations of search.             *)
(***************************************************************************)
\* mutants of IsOutOfTime: the cap is reached one iteration late; one early
IsOutOfTimeLate(limit, searched) == searched > limit
IsOutOfTimeEarly(limit, searched) == searched + 1 >= limit

\* Limits::is_out_of_time for a node cap
IsOutOfTime(limit, searched) == searched >= limit

\* mutant of SetPosition: the root is replaced, the tree is kept
SetPositionKeepTree(pos) ==
  /\ phase = "idle"
  /\ root' = pos
  /\ goSinceSet' = FALSE
  /\ lastGo' = NoResults
  /\ UNCHANGED <<tree, iterations, boards, phase, nodes_searched, nodeLimit,
                 inherited, expansions, continued, rootAtGo>>
  /\ UNCHANGED <<evalVars, limVars, ugiVars, timeVars, genVars, parVars, execVars, arenaVars>>

\* Engine::set_position
SetPosition(pos) ==
  /\ phase = "idle"
  /\ root' = pos
  /\ tree' = <<>>
  /\ iterations' = 0
  /\ boards' = <<>>
  /\ goSinceSet' = FALSE
  /\ lastGo' = NoResults
  /\ UNCHANGED <<phase, nodes_searched, nodeLimit, inherited, expansions, continued, rootAtGo>>
  /\ UNCHANGED <<evalVars, limVars, ugiVars, timeVars, genVars, parVars, execVars, arenaVars>>

\* set_limits and go, up to the loop of Engine::search: on an empty tree the
\* root node is created and expanded with the policy of the evaluator
Go(limit, policy) ==
  /\ phase = "idle"
  /\ nodeLimit' = limit
  /\ nodes_searched' = 0
  /\ phase' = "searching"
  /\ tree' = IF tree = <<>>
               THEN <<NodeExpand(NewNode(Null, 0), root, policy)>>
               ELSE tree
  /\ boards' = IF tree = <<>> THEN <<root>> ELSE boards
  /\ inherited' = Len(tree)
  /\ expansions' = 0
  /\ goSinceSet' = TRUE
  /\ continued' = goSinceSet
  /\ rootAtGo' = root
  /\ lastGo' = NoResults
  /\ UNCHANGED <<root, iterations>>
  /\ UNCHANGED <<evalVars, limVars, ugiVars, timeVars, genVars, parVars, execVars, arenaVars>>

\* one iteration of the loop of search whose selection ends at a dangling edge
IterateEvaluated(policy, value) ==
  /\ phase = "searching"
  /\ ~IsOutOfTime(nodeLimit, nodes_searched)
  /\ iterations < MaxIter
  /\ \E sel \in {Select(tree, 0, root)} :
       /\ sel.kind = "NonTerminal"
       /\ tree' = SesbEvaluated(sel, policy, value)
       /\ boards' = Append(boards, SesbBoard(sel))
  /\ nodes_searched' = nodes_searched + 1
  /\ iterations' = iterations + 1
  /\ expansions' = expansions + 1
  /\ UNCHANGED <<root, phase, nodeLimit, inherited, goSinceSet, continued,
                 rootAtGo, lastGo>>
  /\ UNCHANGED <<evalVars, limVars, ugiVars, timeVars, genVars, parVars, execVars, arenaVars>>

\* one iteration of the loop of search whose selection ends at a terminal node
IterateTerminal ==
  /\ phase = "searching"
  /\ ~IsOutOfTime(nodeLimit, nodes_searched)
  /\ iterations < MaxIter
  /\ \E sel \in {Select(tree, 0, root)} :
       /\ sel.kind = "Terminal"
       /\ tree' = SesbTerminal(sel)
  /\ nodes_searched' = nodes_searched + 1
  /\ iterations' = iterations + 1
  /\ UNCHANGED <<root, phase, nodeLimit, boards, inherited, expansions, goSinceSet, continued,
                 rootAtGo, lastGo>>
  /\ UNCHANGED <<evalVars, limVars, ugiVars, timeVars, genVars, parVars, execVars, arenaVars>>

\* the loop of search ends; go takes best_move and dist of tree[0] and
\* returns them, or panics in best_move ("no moves in node")
GoReturn ==
  /\ phase = "searching"
  /\ IsOutOfTime(nodeLimit, nodes_searched)
  /\ IF BestMove(tree).some
       THEN /\ phase' = "idle"
            /\ lastGo' = [returned |-> TRUE, best_move |-> BestMove(tree).move,
                          root_dist |-> Dist(tree)]
       ELSE /\ phase' = "panicked"
            /\ UNCHANGED lastGo
  /\ UNCHANGED <<tree, root, nodes_searched, nodeLimit, iterations,
                 boards, inherited, expansions, goSinceSet, continued, rootAtGo>>
  /\ UNCHANGED <<evalVars, limVars, ugiVars, timeVars, genVars, parVars, execVars, arenaVars>>

(***************************************************************************)
(* The protocol loop (ugi.rs): the thread that reads standard input, the   *)
(* loop of main_loop, and the loop of Engine::search with its poll of the  *)
(* command channel.  What do_sesb does to the tree is the subject of the   *)
(* actions above; here the tree is known by whether its root has children. *)
(***************************************************************************)
\* bounds: the lines of standard input before its end, and the iterations
\* of one search that are followed
MaxLines == 2
MaxSearched == 1026

\* engine.rs:148  if nodes_searched % 1024 == 0
CHECKPOINT_INTERVAL == 1024

\* a line of standard input, trimmed: a command and, for go, the words of
\* its LIMITS text
Plain(cmd) == [cmd |-> cmd, args |-> <<>>]
GoLine(ws) == [cmd |-> "go", args |-> ws]

\* a word that parses as a move (G::Move::from_str is Ok), and one that does not
MoveTok(mv) == <<"move", mv>>
BadTok == <<"word", "zz">>
IsMoveTok(w) == w[1] = "move"

\* the board part of a position command: startpos, fen with a text that
\* parses as the board pos, fen with a text that does not parse, and
\* anything else
StartposPart == <<"startpos">>
FenPart(pos) == <<"fen", TRUE, pos>>
BadFenPart == <<"fen", FALSE>>
BadBoardPart == <<"other">>

\* "play M", and "position BOARD [moves M1 M2 ...]"
PlayLine(w) == [cmd |-> "play", args |-> <<w>>]
PositionLine(part, ws) == [cmd |-> "position", args |-> <<part>> \o ws]

\* ControlFlow::Break(()) and ControlFlow::Continue(()) of the two command
\* functions, with the board they hand to set_position and whether they
\* printed an info string
Break == [flow |-> "Break", reported |-> TRUE]
Continue(board, reported) == [flow |-> "Continue", board |-> board, reported |-> reported]

\* mutant of MoveLegal: every move that parses is taken for legal
MoveLegalAlways(pos, mv) == mv = mv /\ pos = pos

\* the closure of make_move_on_engine: some legal move equals mv
MoveLegal(pos, mv) ==
  \E i \in 1 .. Len(GenerateMoves(pos)) : GenerateMoves(pos)[i] = mv

\* make_move_on_engine
MakeMoveOnEngine(root_, w) ==
  IF ~IsMoveTok(w) THEN Break
  ELSE IF ~MoveLegal(root_, w[2]) THEN Break
  ELSE Continue(MakeMove(root_, w[2]), FALSE)

\* the for loop of parse_position: a word that parses is made on the board,
\* a word that does not is reported and the loop goes on to the next word
RECURSIVE ApplyMoves(_, _, _)
ApplyMoves(board, ws, reported) ==
  IF ws = <<>> THEN Continue(board, reported)
  ELSE IF IsMoveTok(Head(ws))
    THEN ApplyMoves(MakeMove(board, Head(ws)[2]), Tail(ws), reported)
    ELSE ApplyMoves(board, Tail(ws), TRUE)

\* parse_position
ParsePosition(args) ==
  LET part == args[1]
  IN  IF part[1] = "startpos" THEN ApplyMoves(DefaultPosition, Tail(args), FALSE)
      ELSE IF part[1] = "fen"
        THEN IF part[2] THEN ApplyMoves(part[3], Tail(args), FALSE) ELSE Break
      ELSE Break

\* the turn of main_loop for this line prints an info string
Reported(line, root_) ==
  \/ line.cmd = "go" /\ ~LimitsFromStr(line.args).ok
  \/ line.cmd = "play" /\ MakeMoveOnEngine(root_, line.args[1]).reported
  \/ line.cmd = "position" /\ ParsePosition(line.args).reported

\* the engine as a turn of main_loop finds it and leaves it
EngineView(limits_, root_, treeState_, bestmoves_) ==
  [limits |-> limits_, root |-> root_, tree |-> treeState_, bestmoves |-> bestmoves_]

\* one turn of the loop: the line, the engine before and after, whether an
\* info string was printed, and where main_loop went
Turn(line, before, after, reported, pc_) ==
  [line |-> line, before |-> before, after |-> after, reported |-> reported, pc |-> pc_]

\* the lines standard input holds; "go bogus" has no valid LIMITS text
UgiLines ==
  {Plain(c) : c \in {"", "isready", "quit", "stop", "uginewgame"}}
  \cup {GoLine(<<Kw("nodes"), Num(k)>>) : k \in 0 .. MaxNodes}
  \cup {GoLine(<<Kw("bogus")>>)}

\* the sequences of at most n lines
RECURSIVE LineSeqs(_)
LineSeqs(n) ==
  IF n = 0 THEN {<<>>}
  ELSE LET shorter == LineSeqs(n - 1)
       IN  shorter \cup {Append(q, l) : q \in shorter, l \in UgiLines}

\* LIMITS texts that do not parse: an unknown word, a keyword without its
\* number, a word that is no number where one is due, a clock that stops
\* short, a clock with its fields out of order, and a good specifier
\* followed by an unknown word
BadLimitsTexts ==
  {<<Kw("bogus")>>,
   <<Kw("nodes")>>,
   <<Kw("movetime"), Kw("soon")>>,
   <<Kw("p1time"), Num(1), Kw("p2time"), Num(1)>>,
   <<Kw("p1time"), Num(1), Kw("p1inc"), Num(1), Kw("p2time"), Num(1), Kw("p2inc"), Num(1)>>,
   <<Kw("nodes"), Num(1), Kw("bogus")>>}

\* the boards the fen texts of the model stand for
FenBoards ==
  {[pile |-> 2, turn |-> "First", last |-> 0], [pile |-> 1, turn |-> "Second", last |-> 0]}

\* the move lists of the position commands of the model
MoveLists == {<<>>, <<MoveTok(1)>>, <<BadTok>>, <<MoveTok(1), BadTok>>, <<BadTok, MoveTok(1)>>}

\* the lines with go, play and position commands, good and bad ones, and
\* isready
CommandLines ==
  {Plain("isready")}
  \cup {GoLine(ws) : ws \in BadLimitsTexts \cup {<<Kw("nodes"), Num(1)>>}}
  \cup {PlayLine(w) : w \in {MoveTok(m) : m \in Takes} \cup {BadTok}}
  \cup {PositionLine(part, ws) :
          part \in {StartposPart, BadFenPart, BadBoardPart}
                    \cup {FenPart(b) : b \in FenBoards},
          ws \in MoveLists}

\* the sequences of at most n of these lines
RECURSIVE CommandSeqs(_)
CommandSeqs(n) ==
  IF n = 0 THEN {<<>>}
  ELSE LET shorter == CommandSeqs(n - 1)
       IN  shorter \cup {Append(q, l) : q \in shorter, l \in CommandLines}

\* standard input that starts a search with infinite limits and then holds
\* nothing more (its end sends "quit"), or one more line
InterruptScripts ==
  {<<GoLine(<<Kw("infinite")>>)>>, <<GoLine(<<Kw("infinite")>>), Plain("stop")>>}

\* the poll has taken no line
NoLine == "none"

\* mutant of IsCheckpoint: the poll is made every other time
IsCheckpointSparse(n) == n % (2 * CHECKPOINT_INTERVAL) = 0

\* nodes_searched % 1024 == 0
IsCheckpoint(n) == n % CHECKPOINT_INTERVAL = 0

\* mutant of PollSetsQuit: every command the poll takes sets the flag
PollSetsQuitAlways(cmd) == cmd = cmd

\* if cmd == "quit" { ugi::QUIT.store(true, ..) }
PollSetsQuit(cmd) == cmd = "quit"

\* Limits::is_out_of_time for limits without a clock: the node cap part
LimitsOutOfNodes(l, nodes_searched_) ==
  l.nodes.some /\ IsOutOfTime(l.nodes.val, nodes_searched_)

\* the process is running: main has neither returned nor panicked
MainAlive == mainPc \in {"recv", "search"}

\* the state main_loop starts its loop in
UgiStart ==
  /\ readerPc = "read"
  /\ cmdCh = <<>>
  /\ QUIT = FALSE
  /\ STDIN_READER_THREAD_KEEP_RUNNING = TRUE
  /\ mainPc = "recv"
  /\ limits = LimitsInfinite
  /\ searchCount = 0
  /\ stopped_by_stdin = FALSE
  /\ treeState = "empty"
  /\ readyoks = 0
  /\ bestmoves = 0
  /\ isreadyTaken = 0
  /\ sinceLine = 0
  /\ lateHandled = <<>>
  /\ quitBy = "none"
  /\ polled = NoLine
  /\ engineRoot = DefaultPosition
  /\ turns = <<>>

\* no protocol loop is run
UgiIdle == UgiStart /\ script = <<>>

\* stdin_reader_worker: one read_line that returns a line
ReaderLine ==
  /\ MainAlive
  /\ readerPc = "read"
  /\ script # <<>>
  /\ script' = Tail(script)
  /\ IF Head(script).cmd = ""
       THEN UNCHANGED <<cmdCh, readerPc>>
       ELSE /\ cmdCh' = Append(cmdCh, Head(script))
            /\ readerPc' = IF STDIN_READER_THREAD_KEEP_RUNNING THEN "read" ELSE "done"
  /\ UNCHANGED <<QUIT, STDIN_READER_THREAD_KEEP_RUNNING, mainPc, limits, searchCount,
                 stopped_by_stdin, treeState, readyoks, bestmoves, isreadyTaken,
                 sinceLine, lateHandled, quitBy, polled, engineRoot, turns>>
  /\ UNCHANGED <<evalVars, treeVars, limVars, timeVars, genVars, parVars, execVars, arenaVars>>

\* stdin_reader_worker at the end of input: sender.send("quit")
ReaderEofSend ==
  /\ MainAlive
  /\ readerPc = "read"
  /\ script = <<>>
  /\ cmdCh' = Append(cmdCh, Plain("quit"))
  /\ readerPc' = "eof_sent"
  /\ UNCHANGED <<script, QUIT, STDIN_READER_THREAD_KEEP_RUNNING, mainPc, limits, searchCount,
                 stopped_by_stdin, treeState, readyoks, bestmoves, isreadyTaken,
                 sinceLine, lateHandled, quitBy, polled, engineRoot, turns>>
  /\ UNCHANGED <<evalVars, treeVars, limVars, timeVars, genVars, parVars, execVars, arenaVars>>

\* stdin_reader_worker at the end of input: QUIT.store(true), break
ReaderEofStore ==
  /\ MainAlive
  /\ readerPc = "eof_sent"
  /\ QUIT' = TRUE
  /\ quitBy' = IF QUIT THEN quitBy ELSE "eof"
  /\ readerPc' = "done"
  /\ UNCHANGED <<script, cmdCh, STDIN_READER_THREAD_KEEP_RUNNING, mainPc, limits, searchCount,
                 stopped_by_stdin, treeState, readyoks, bestmoves, isreadyTaken,
                 sinceLine, lateHandled, polled, engineRoot, turns>>
  /\ UNCHANGED <<evalVars, treeVars, limVars, timeVars, genVars, parVars, execVars, arenaVars>>

\* the end of one turn of the loop of main_loop: if QUIT.load() { break },
\* and the store to STDIN_READER_THREAD_KEEP_RUNNING after the loop
EndOfTurn ==
  /\ mainPc' = IF QUIT THEN "exited" ELSE "recv"
  /\ STDIN_READER_THREAD_KEEP_RUNNING' = ~QUIT

\* one turn of the loop of main_loop: recv a line and match it
MainCommand ==
  /\ mainPc = "recv"
  /\ cmdCh # <<>> \/ readerPc = "done"
  /\ IF cmdCh = <<>>
       THEN \* recv fails, the sender is dropped: break
            /\ mainPc' = "exited"
            /\ STDIN_READER_THREAD_KEEP_RUNNING' = FALSE
            /\ UNCHANGED <<cmdCh, QUIT, quitBy, limits, searchCount, stopped_by_stdin,
                           treeState, readyoks, isreadyTaken, sinceLine, lateHandled,
                           polled, engineRoot>>
       ELSE LET line == Head(cmdCh)
                lim == LimitsFromStr(line.args)
                moved == IF line.cmd = "play"
                           THEN MakeMoveOnEngine(engineRoot, line.args[1])
                           ELSE ParsePosition(line.args)
            IN
            /\ cmdCh' = Tail(cmdCh)
            /\ lateHandled' = IF QUIT /\ line.cmd # "quit"
                                THEN Append(lateHandled, line.cmd)
                                ELSE lateHandled
            /\ IF line.cmd = "quit"
                 THEN /\ QUIT' = TRUE
                      /\ quitBy' = IF QUIT THEN quitBy ELSE "loop"
                      /\ mainPc' = "exited"
                      /\ STDIN_READER_THREAD_KEEP_RUNNING' = FALSE
                      /\ UNCHANGED <<limits, searchCount, stopped_by_stdin, treeState,
                                     readyoks, isreadyTaken, sinceLine, polled, engineRoot>>
               ELSE IF line.cmd = "isready"
                 THEN /\ readyoks' = readyoks + 1
                      /\ isreadyTaken' = isreadyTaken + 1
                      /\ EndOfTurn
                      /\ UNCHANGED <<QUIT, quitBy, limits, searchCount, stopped_by_stdin,
                                     treeState, sinceLine, polled, engineRoot>>
               ELSE IF line.cmd = "uginewgame"
                 THEN \* engine.set_position(&G::default())
                      /\ engineRoot' = DefaultPosition
                      /\ treeState' = "empty"
                      /\ EndOfTurn
                      /\ UNCHANGED <<QUIT, quitBy, limits, searchCount, stopped_by_stdin,
                                     readyoks, isreadyTaken, sinceLine, polled>>
               ELSE IF line.cmd = "go" /\ ~lim.ok
                 THEN \* "info string invalid go command", continue
                      UNCHANGED <<QUIT, quitBy, mainPc, STDIN_READER_THREAD_KEEP_RUNNING,
                                  limits, searchCount, stopped_by_stdin, treeState,
                                  readyoks, isreadyTaken, sinceLine, polled, engineRoot>>
               ELSE IF line.cmd \in {"play", "position"} /\ moved.flow = "Break"
                 THEN \* the info string is printed, continue
                      UNCHANGED <<QUIT, quitBy, mainPc, STDIN_READER_THREAD_KEEP_RUNNING,
                                  limits, searchCount, stopped_by_stdin, treeState,
                                  readyoks, isreadyTaken, sinceLine, polled, engineRoot>>
               ELSE IF line.cmd \in {"play", "position"}
                 THEN \* engine.set_position(&board)
                      /\ engineRoot' = moved.board
                      /\ treeState' = "empty"
                      /\ EndOfTurn
                      /\ UNCHANGED <<QUIT, quitBy, limits, searchCount, stopped_by_stdin,
                                     readyoks, isreadyTaken, sinceLine, polled>>
               ELSE IF line.cmd = "go"
                 THEN \* set_limits, go, search up to its loop
                      /\ limits' = lim.limits
                      /\ mainPc' = "search"
                      /\ searchCount' = 0
                      /\ stopped_by_stdin' = FALSE
                      /\ treeState' = IF treeState = "empty" THEN "root" ELSE treeState
                      /\ sinceLine' = 0
                      /\ polled' = NoLine
                      /\ UNCHANGED <<QUIT, quitBy, STDIN_READER_THREAD_KEEP_RUNNING,
                                     readyoks, isreadyTaken, engineRoot>>
               ELSE \* "stop", and the commands that only print
                    /\ EndOfTurn
                    /\ UNCHANGED <<QUIT, quitBy, limits, searchCount, stopped_by_stdin,
                                   treeState, readyoks, isreadyTaken, sinceLine, polled,
                                   engineRoot>>
  /\ UNCHANGED <<script, readerPc, bestmoves>>
  /\ turns' = IF cmdCh = <<>> THEN turns
              ELSE Append(turns,
                          Turn(Head(cmdCh),
                               EngineView(limits, engineRoot, treeState, bestmoves),
                               EngineView(limits', engineRoot', treeState', bestmoves'),
                               Reported(Head(cmdCh), engineRoot), mainPc'))
  /\ UNCHANGED <<evalVars, treeVars, limVars, timeVars, genVars, parVars, execVars, arenaVars>>

\* one turn of the loop of Engine::search: do_sesb, and at a checkpoint the
\* try_recv on the command channel
SearchIterate ==
  /\ mainPc = "search"
  /\ ~LimitsOutOfNodes(limits, searchCount)
  /\ ~stopped_by_stdin
  /\ searchCount < MaxSearched
  /\ treeState' = IF Outcome(engineRoot) = "Ongoing" THEN "grown" ELSE "root"
  /\ IF IsCheckpoint(searchCount) /\ cmdCh # <<>>
       THEN /\ cmdCh' = Tail(cmdCh)
            /\ QUIT' = (QUIT \/ PollSetsQuit(Head(cmdCh).cmd))
            /\ quitBy' = IF ~QUIT /\ PollSetsQuit(Head(cmdCh).cmd) THEN "poll" ELSE quitBy
            /\ polled' = Head(cmdCh).cmd
            /\ isreadyTaken' = isreadyTaken + (IF Head(cmdCh).cmd = "isready" THEN 1 ELSE 0)
            /\ stopped_by_stdin' = TRUE
       ELSE UNCHANGED <<cmdCh, QUIT, quitBy, polled, isreadyTaken, stopped_by_stdin>>
  /\ searchCount' = searchCount + 1
  /\ sinceLine' = IF cmdCh # <<>> THEN sinceLine + 1 ELSE sinceLine
  /\ UNCHANGED <<script, readerPc, STDIN_READER_THREAD_KEEP_RUNNING, mainPc, limits,
                 readyoks, bestmoves, lateHandled, engineRoot, turns>>
  /\ UNCHANGED <<evalVars, treeVars, limVars, timeVars, genVars, parVars, execVars, arenaVars>>

\* the loop of search ends: go takes the best move of the root, main_loop
\* prints it and ends its turn; on a root without children best_move panics
SearchReturn ==
  /\ mainPc = "search"
  /\ LimitsOutOfNodes(limits, searchCount) \/ stopped_by_stdin
  /\ IF treeState = "root"
       THEN /\ mainPc' = "panicked"
            /\ UNCHANGED <<bestmoves, STDIN_READER_THREAD_KEEP_RUNNING>>
       ELSE /\ bestmoves' = bestmoves + 1
            /\ EndOfTurn
  /\ UNCHANGED <<script, readerPc, cmdCh, QUIT, limits, searchCount, stopped_by_stdin,
                 treeState, readyoks, isreadyTaken, sinceLine, lateHandled, quitBy, polled, engineRoot, turns>>
  /\ UNCHANGED <<evalVars, treeVars, limVars, timeVars, genVars, parVars, execVars, arenaVars>>

UgiNext ==
  \/ ReaderLine
  \/ ReaderEofSend
  \/ ReaderEofStore
  \/ MainCommand
  \/ SearchIterate
  \/ SearchReturn

(***************************************************************************)
(* Data generation (datagen.rs): num_threads self-play workers, each with  *)
(* an engine on one ExecutorHandle, send their finished games over one     *)
(* channel to the thread that writes the three files.  The workers are the *)
(* clients of the evaluator above; one call of Engine::go is one board sent *)
(* to the evaluator and one reply, and the move it returns is any legal    *)
(* move.                                                                   *)
(***************************************************************************)
\* bounds: games one worker starts, and the plies of the shorter opening
\* (8 in the source, where games are that much longer; none here, so that
\* games of two plies with every result are played)
MaxGames == 1
OpeningPlies == 0

\* datagen.rs:111  the random opening: plies moves chosen among the legal
\* ones, a ply without legal moves is skipped
RECURSIVE Openings(_, _)
Openings(board, plies) ==
  IF plies = 0 THEN {board}
  ELSE IF Len(GenerateMoves(board)) = 0 THEN Openings(board, plies - 1)
  ELSE UNION {Openings(MakeMove(board, GenerateMoves(board)[i]), plies - 1) :
                i \in DOMAIN GenerateMoves(board)}

\* GameRecord { root, move_list, outcome }; the outcome None is "Ongoing"
GameRecord(board) == [root |-> board, move_list |-> <<>>, outcome |-> "Ongoing"]

\* root_dist of SearchResults in thousandths: all visits on the move played
RootDist(mv) == [i \in 1 .. POLICY_DIM |-> IF i = PolicyIndex(mv) + 1 THEN 1000 ELSE 0]

\* mutant of GamePush: only the first move of a game is recorded
GamePushFirstOnly(move_list, best_move, root_dist) ==
  IF move_list = <<>> THEN <<<<best_move, root_dist>>>> ELSE move_list

\* datagen.rs:137  game.move_list.push((best_move, root_dist))
GamePush(move_list, best_move, root_dist) == Append(move_list, <<best_move, root_dist>>)

\* the sender of worker w is dropped: by drop(send), or by the unwinding of
\* a panic of the worker
SendDropped(w) == wPc[w] = "ended" \/ pc[w] = "panicked"

\* datagen.rs:98..122  while start_time.elapsed() < time_allocated: the
\* opening and the new game record
WorkerStartGame(w) ==
  /\ wPc[w] = "loop"
  /\ pc[w] = "idle"
  /\ ~expired[w]
  /\ wStarted[w] < MaxGames
  /\ \E plies \in {OpeningPlies, OpeningPlies + 1} :
       \E board \in Openings(DefaultPosition, plies) :
         /\ wBoard' = [wBoard EXCEPT ![w] = board]
         /\ wGame' = [wGame EXCEPT ![w] = GameRecord(board)]
  /\ wStarted' = [wStarted EXCEPT ![w] = @ + 1]
  /\ wPc' = [wPc EXCEPT ![w] = "play"]
  /\ UNCHANGED <<wPlies, recordCh, wrPc, positions, policy_tgt, value_tgt, taken, expired>>
  /\ UNCHANGED <<evalVars, treeVars, limVars, ugiVars, timeVars, parVars, execVars, arenaVars>>

\* datagen.rs:129  while board.outcome().is_none() { engine.set_position;
\* engine.go(): the search is about to send its board
WorkerGoBegin(w) ==
  /\ wPc[w] = "play"
  /\ Outcome(wBoard[w]) = "Ongoing"
  /\ Len(rcvd[w]) = wPlies[w]
  /\ pc[w] = "idle"
  /\ pc' = [pc EXCEPT ![w] = "send"]
  /\ UNCHANGED <<sent, rcvd, reqCh, replyCh, evPc, sweepIdx, foundAnything,
                 inWaiting, indices, outputs, slot, pulled, replied, batches, lost>>
  /\ UNCHANGED <<treeVars, limVars, ugiVars, timeVars, genVars, parVars, execVars, arenaVars>>

\* the search of the worker sends its board to the evaluator
WorkerSend(w) == wPc[w] = "play" /\ ClientSend(w)

\* the search of the worker blocks on the reply
WorkerRecv(w) == wPc[w] = "play" /\ ClientRecv(w)

\* datagen.rs:131..137  go returns: assert_eq!(root_dist.len(), POLICY_DIM),
\* board.make_move(best_move), game.move_list.push(..)
WorkerGoEnd(w) ==
  /\ wPc[w] = "play"
  /\ pc[w] = "idle"
  /\ Len(rcvd[w]) > wPlies[w]
  /\ \E i \in DOMAIN GenerateMoves(wBoard[w]) :
       \E best_move \in {GenerateMoves(wBoard[w])[i]} :
         /\ Len(RootDist(best_move)) = POLICY_DIM
         /\ wBoard' = [wBoard EXCEPT ![w] = MakeMove(@, best_move)]
         /\ wGame' = [wGame EXCEPT ![w].move_list = GamePush(@, best_move, RootDist(best_move))]
  /\ wPlies' = [wPlies EXCEPT ![w] = @ + 1]
  /\ UNCHANGED <<wPc, wStarted, recordCh, wrPc, positions, policy_tgt, value_tgt, taken, expired>>
  /\ UNCHANGED <<evalVars, treeVars, limVars, ugiVars, timeVars, parVars, execVars, arenaVars>>

\* what travels on the channel: the record, and as history who played it,
\* which of the worker's games it is, and the position the worker reached
Delivery(w) ==
  [game |-> [wGame[w] EXCEPT !.outcome = Outcome(wBoard[w])],
   by |-> w, no |-> wStarted[w], final |-> wBoard[w]]

\* datagen.rs:140..146  the game is over: game.outcome = Some(outcome),
\* send.send(game)?
WorkerShip(w) ==
  /\ wPc[w] = "play"
  /\ pc[w] = "idle"
  /\ Len(rcvd[w]) = wPlies[w]
  /\ Outcome(wBoard[w]) # "Ongoing"
  /\ recordCh' = Append(recordCh, Delivery(w))
  /\ wGame' = [wGame EXCEPT ![w] = Delivery(w).game]
  /\ wPc' = [wPc EXCEPT ![w] = "loop"]
  /\ UNCHANGED <<wBoard, wStarted, wPlies, wrPc, positions, policy_tgt, value_tgt, taken, expired>>
  /\ UNCHANGED <<evalVars, treeVars, limVars, ugiVars, timeVars, parVars, execVars, arenaVars>>

\* datagen.rs:98  time passes: from now on start_time.elapsed() of worker w
\* is no less than time_allocated_millis
BudgetExpires(w) ==
  /\ ~expired[w]
  /\ expired' = [expired EXCEPT ![w] = TRUE]
  /\ UNCHANGED <<wPc, wBoard, wGame, wStarted, wPlies, recordCh, wrPc, positions,
                 policy_tgt, value_tgt, taken>>
  /\ UNCHANGED <<evalVars, treeVars, limVars, ugiVars, timeVars, parVars, execVars, arenaVars>>

\* datagen.rs:98, 153  the time is up at the head of the loop: drop(send)
WorkerTimeUp(w) ==
  /\ wPc[w] = "loop"
  /\ pc[w] = "idle"
  /\ expired[w]
  /\ wPc' = [wPc EXCEPT ![w] = "ended"]
  /\ UNCHANGED <<wBoard, wGame, wStarted, wPlies, recordCh, wrPc, positions,
                 policy_tgt, value_tgt, taken, expired>>
  /\ UNCHANGED <<evalVars, treeVars, limVars, ugiVars, timeVars, parVars, execVars, arenaVars>>

\* datagen.rs:155  Ok(()): the engine and its ExecutorHandle are dropped
WorkerReturn(w) == wPc[w] = "ended" /\ ClientDrop(w)

\* datagen.rs:34..47  the line of positions.csv: the feature map of the board
FeatureMap(board) ==
  [i \in 1 .. MaxPile + 1 |->
     IF i <= MaxPile THEN (IF i <= board.pile THEN 1 ELSE 0)
     ELSE (IF board.turn = "First" THEN 1 ELSE 0)]

\* mutant of ValueTarget: the result as the player who does not move sees it
ValueTargetOfOpponent(outcome, to_move) ==
  IF outcome = "None" THEN Half
  ELSE IF outcome = to_move THEN 0 ELSE One

\* datagen.rs:58..67  value_target, in units of 0.5
ValueTarget(outcome, to_move) ==
  IF outcome = "None" THEN Half
  ELSE IF outcome = to_move THEN One ELSE 0

\* one line of a file, and as history the delivery and the ply it is from
Row(text, msg, ply) == [text |-> text, by |-> msg.by, no |-> msg.no, ply |-> ply]

Files(pos, pol, val, panicked) ==
  [positions |-> pos, policy_tgt |-> pol, value_tgt |-> val, panicked |-> panicked]

\* mutant of WriteRows: the value target is written once for a game
RECURSIVE WriteRowsValueOnce(_, _, _, _)
WriteRowsValueOnce(msg, board, ply, files) ==
  IF ply > Len(msg.game.move_list) THEN files
  ELSE WriteRowsValueOnce(msg, MakeMove(board, msg.game.move_list[ply][1]), ply + 1,
         Files(Append(files.positions, Row(FeatureMap(board), msg, ply)),
               Append(files.policy_tgt, Row(msg.game.move_list[ply][2], msg, ply)),
               IF ply = 1
                 THEN Append(files.value_tgt,
                             Row(ValueTarget(msg.game.outcome, ToMove(board)), msg, ply))
                 ELSE files.value_tgt,
               FALSE))

\* datagen.rs:33..72  for (best_move, root_dist) in game.move_list: a line
\* of each file, then board.make_move(best_move); the assertion and the
\* unreachable!() end the thread between the lines
RECURSIVE WriteRows(_, _, _, _)
WriteRows(msg, board, ply, files) ==
  IF ply > Len(msg.game.move_list) THEN files
  ELSE LET withPosition == Append(files.positions, Row(FeatureMap(board), msg, ply))
           root_dist == msg.game.move_list[ply][2]
           withPolicy == Append(files.policy_tgt, Row(root_dist, msg, ply))
       IN  IF Len(root_dist) # POLICY_DIM
             THEN Files(withPosition, files.policy_tgt, files.value_tgt, TRUE)
           ELSE IF msg.game.outcome = "Ongoing"
             THEN Files(withPosition, withPolicy, files.value_tgt, TRUE)
           ELSE WriteRows(msg, MakeMove(board, msg.game.move_list[ply][1]), ply + 1,
                  Files(withPosition, withPolicy,
                        Append(files.value_tgt,
                               Row(ValueTarget(msg.game.outcome, ToMove(board)), msg, ply)),
                        FALSE))

\* datagen.rs:31  for game in recv: one record, written from game.root on
WriterTake ==
  /\ wrPc = "recv"
  /\ recordCh # <<>>
  /\ \E files \in {WriteRows(Head(recordCh), Head(recordCh).game.root, 1,
                             Files(positions, policy_tgt, value_tgt, FALSE))} :
       /\ positions' = files.positions
       /\ policy_tgt' = files.policy_tgt
       /\ value_tgt' = files.value_tgt
       /\ wrPc' = IF files.panicked THEN "panicked" ELSE "recv"
  /\ recordCh' = Tail(recordCh)
  /\ taken' = Append(taken, Head(recordCh))
  /\ UNCHANGED <<wPc, wBoard, wGame, wStarted, wPlies, expired>>
  /\ UNCHANGED <<evalVars, treeVars, limVars, ugiVars, timeVars, parVars, execVars, arenaVars>>

\* datagen.rs:75..79  every sender is dropped and the channel is empty: the
\* for loop ends, the files are flushed
WriterEnd ==
  /\ wrPc = "recv"
  /\ recordCh = <<>>
  /\ \A w \in Pipes : SendDropped(w)
  /\ wrPc' = "done"
  /\ UNCHANGED <<wPc, wBoard, wGame, wStarted, wPlies, recordCh, positions,
                 policy_tgt, value_tgt, taken, expired>>
  /\ UNCHANGED <<evalVars, treeVars, limVars, ugiVars, timeVars, parVars, execVars, arenaVars>>

\* no data generation is running
GenIdle ==
  /\ wPc = [w \in Pipes |-> "ended"]
  /\ wBoard = [w \in Pipes |-> DefaultPosition]
  /\ wGame = [w \in Pipes |-> GameRecord(DefaultPosition)]
  /\ wStarted = [w \in Pipes |-> 0]
  /\ wPlies = [w \in Pipes |-> 0]
  /\ recordCh = <<>>
  /\ wrPc = "done"
  /\ positions = <<>>
  /\ policy_tgt = <<>>
  /\ value_tgt = <<>>
  /\ taken = <<>>
  /\ expired = [w \in Pipes |-> FALSE]

\* run_data_generation: the executor, the writer and the workers are spawned
GenInit ==
  /\ wPc = [w \in Pipes |-> "loop"]
  /\ wBoard = [w \in Pipes |-> DefaultPosition]
  /\ wGame = [w \in Pipes |-> GameRecord(DefaultPosition)]
  /\ wStarted = [w \in Pipes |-> 0]
  /\ wPlies = [w \in Pipes |-> 0]
  /\ recordCh = <<>>
  /\ wrPc = "recv"
  /\ positions = <<>>
  /\ policy_tgt = <<>>
  /\ value_tgt = <<>>
  /\ taken = <<>>
  /\ expired = [w \in Pipes |-> FALSE]

(***************************************************************************)
(* The arena (arena.rs).  A Handle is a u32; the model keeps the layout    *)
(* and narrows the index to HandleBits bits, so that a storage with as     *)
(* many objects as there are non-null handles is within reach.             *)
(***************************************************************************)
HandleBits == 2
MaxFree == 3

\* arena.rs:10  Handle::null(): the largest index
HandleNull == 2 ^ HandleBits - 1

Handles == 0 .. HandleNull

\* the contents of the objects that are stored
Objects == {"a", "b"}

\* what a call returns, or that it panicked
NoCall == [op |-> "none", handle |-> HandleNull, was_live |-> FALSE, absent |-> FALSE]
ArenaReturned(op, handle, was_live, absent) ==
  [op |-> op, handle |-> handle, was_live |-> was_live, absent |-> absent]

\* arena.rs:35  Arena::new()
ArenaNew ==
  /\ objects = <<>>
  /\ free_list = <<>>
  /\ live = {}
  /\ issued = {}
  /\ misused = FALSE
  /\ arResult = NoCall

\* no arena is in use
ArenaIdle == ArenaNew

\* arena.rs:43..51  Arena::alloc: the slot popped off the free list is
\* overwritten, objects[index] panicking when the index is out of bounds;
\* with an empty free list the object is pushed, and try_into().unwrap()
\* panics when the length does not fit the index type
ArenaAlloc(object) ==
  /\ arResult.op # "panic"
  /\ IF free_list # <<>>
       THEN LET index == free_list[Len(free_list)] IN
              /\ free_list' = SubSeq(free_list, 1, Len(free_list) - 1)
              /\ IF index >= Len(objects)
                   THEN /\ arResult' = ArenaReturned("panic", index, FALSE, FALSE)
                        /\ UNCHANGED <<objects, live, issued>>
                   ELSE /\ objects' = [objects EXCEPT ![index + 1] = object]
                        /\ arResult' = ArenaReturned("alloc", index, index \in live, FALSE)
                        /\ live' = live \cup {index}
                        /\ issued' = issued \cup {index}
       ELSE /\ objects' = Append(objects, object)
            /\ UNCHANGED free_list
            /\ IF Len(objects) + 1 > HandleNull
                 THEN /\ arResult' = ArenaReturned("panic", HandleNull, FALSE, FALSE)
                      /\ UNCHANGED <<live, issued>>
                 ELSE /\ arResult' = ArenaReturned("alloc", Len(objects), Len(objects) \in live, FALSE)
                      /\ live' = live \cup {Len(objects)}
                      /\ issued' = issued \cup {Len(objects)}
  /\ UNCHANGED misused
  /\ UNCHANGED <<evalVars, treeVars, limVars, ugiVars, timeVars, genVars, parVars, execVars>>

\* arena.rs:74..76  Arena::dealloc: the index goes on the free list, whatever
\* it is; the callers hold the handles alloc returned and Handle::null()
ArenaDealloc(handle) ==
  /\ arResult.op # "panic"
  /\ handle \in issued \cup {HandleNull}
  /\ Len(free_list) < MaxFree
  /\ free_list' = Append(free_list, handle)
  /\ live' = live \ {handle}
  /\ misused' = (misused \/ handle \notin live)
  /\ arResult' = ArenaReturned("dealloc", handle, handle \in live, FALSE)
  /\ UNCHANGED <<objects, issued>>
  /\ UNCHANGED <<evalVars, treeVars, limVars, ugiVars, timeVars, genVars, parVars, execVars>>

\* arena.rs:64..66  Arena::try_get: self.objects.get(handle.index())
ArenaTryGet(handle) ==
  /\ arResult.op # "panic"
  /\ arResult' = ArenaReturned("try_get", handle, handle \in live, ~(handle < Len(objects)))
  /\ UNCHANGED <<objects, free_list, live, issued, misused>>
  /\ UNCHANGED <<evalVars, treeVars, limVars, ugiVars, timeVars, genVars, parVars, execVars>>

\* Engine::new, but for its params
EngineNew ==
  /\ ArenaIdle
  /\ ExecutorNew
  /\ GenIdle
  /\ TimeIdle
  /\ EvalInit
  /\ tree = <<>>
  /\ root \in RootPositions
  /\ phase = "idle"
  /\ nodes_searched = 0
  /\ nodeLimit = 0
  /\ iterations = 0
  /\ boards = <<>>
  /\ inherited = 0
  /\ expansions = 0
  /\ goSinceSet = FALSE
  /\ continued = FALSE
  /\ rootAtGo = <<>>
  /\ lastGo = NoResults
  /\ LimitsIdle
  /\ UgiIdle

\* Engine::new with Params::default()
SearchInit == ParamsDefault /\ EngineNew

\* values of the cpuct option: below, at and above the default
CPuctValues == {[num |-> 1, den |-> 8], [num |-> CPuctNum, den |-> CPuctDen], [num |-> 8, den |-> 1]}

\* Engine::new with a c_puct set by the cpuct option
PuctInit == c_puct \in CPuctValues /\ EngineNew

SearchNext ==
  \/ \E pos \in RootPositions : SetPosition(pos)
  \/ \E limit \in 0 .. MaxNodes, policy \in Policies : Go(limit, policy)
  \/ \E policy \in Policies, value \in EvalValues : IterateEvaluated(policy, value)
  \/ IterateTerminal
  \/ GoReturn

SearchSpec == SearchInit /\ [][SearchNext]_vars

PuctSpec == PuctInit /\ [][SearchNext]_vars

TreeIdle ==
  /\ tree = <<>>
  /\ root = <<>>
  /\ phase = "idle"
  /\ nodes_searched = 0
  /\ nodeLimit = 0
  /\ iterations = 0
  /\ boards = <<>>
  /\ inherited = 0
  /\ expansions = 0
  /\ goSinceSet = FALSE
  /\ continued = FALSE
  /\ rootAtGo = <<>>
  /\ lastGo = NoResults

Init == ArenaIdle /\ ExecutorNew /\ ParamsDefault /\ GenIdle /\ EvalInit /\ TreeIdle /\ LimitsIdle /\ UgiIdle /\ TimeIdle

LimitsStart ==
  /\ ArenaIdle
  /\ ExecutorNew
  /\ ParamsDefault
  /\ GenIdle
  /\ TimeIdle
  /\ EvalInit /\ TreeIdle /\ UgiIdle
  /\ LimitsInit

LimitsSpec == LimitsStart /\ [][Combine \/ Parse]_vars

\* main_loop on any standard input of at most MaxLines lines
TimeStart ==
  /\ ArenaIdle
  /\ ExecutorNew
  /\ ParamsDefault
  /\ GenIdle
  /\ EvalInit /\ TreeIdle /\ LimitsIdle /\ UgiIdle
  /\ TimeInit

TimeSpec == TimeStart /\ [][TimeLimitCall \/ IsOutOfTimeCall]_vars

UgiInit ==
  /\ ArenaIdle
  /\ ExecutorNew
  /\ ParamsDefault
  /\ GenIdle
  /\ TimeIdle
  /\ EvalInit /\ TreeIdle /\ LimitsIdle
  /\ UgiStart
  /\ script \in LineSeqs(MaxLines)

UgiSpec == UgiInit /\ [][UgiNext]_vars

\* main_loop on a standard input of go, play and position commands
CommandInit ==
  /\ ArenaIdle
  /\ ExecutorNew
  /\ ParamsDefault
  /\ GenIdle
  /\ TimeIdle
  /\ EvalInit /\ TreeIdle /\ LimitsIdle
  /\ UgiStart
  /\ script \in CommandSeqs(MaxLines)

CommandSpec == CommandInit /\ [][UgiNext]_vars

\* main_loop on a standard input that starts a search with infinite limits
InterruptInit ==
  /\ ArenaIdle
  /\ ExecutorNew
  /\ ParamsDefault
  /\ GenIdle
  /\ TimeIdle
  /\ EvalInit /\ TreeIdle /\ LimitsIdle
  /\ UgiStart
  /\ script \in InterruptScripts

InterruptSpec == InterruptInit /\ [][UgiNext]_vars

Next ==
  \/ \E c \in Pipes : ClientPrepare(c)
  \/ \E c \in Pipes : ClientSend(c)
  \/ \E c \in Pipes : ClientRecv(c)
  \/ \E c \in Pipes : ClientDrop(c)
  \/ PullWhile
  \/ PullTryRecv
  \/ \E c \in Pipes : PullSelect(c)
  \/ TickEvaluate
  \/ TickSend

Spec == Init /\ [][Next]_vars

\* the evaluator and its clients, with the capacity at or below the number
\* of pipes
CapInit ==
  /\ ArenaIdle
  /\ ExecutorNew \/ ExecutorNewSmall
  /\ ParamsDefault /\ GenIdle /\ EvalInit /\ TreeIdle /\ LimitsIdle /\ UgiIdle /\ TimeIdle

CapSpec == CapInit /\ [][Next]_vars

\* the closure of the executor thread: loop { pull; tick }
ExecutorStep ==
  \/ PullWhile
  \/ PullTryRecv
  \/ \E c \in Pipes : PullSelect(c)
  \/ TickEvaluate
  \/ TickSend

\* run_data_generation: the evaluator, the workers and the writer
DatagenInit ==
  /\ ArenaIdle
  /\ ExecutorNew
  /\ ParamsDefault
  /\ EvalInit
  /\ TreeIdle
  /\ LimitsIdle
  /\ UgiIdle
  /\ TimeIdle
  /\ GenInit

DatagenNext ==
  \/ \E w \in Pipes : WorkerStartGame(w)
  \/ \E w \in Pipes : WorkerGoBegin(w)
  \/ \E w \in Pipes : WorkerSend(w)
  \/ \E w \in Pipes : WorkerRecv(w)
  \/ \E w \in Pipes : WorkerGoEnd(w)
  \/ \E w \in Pipes : WorkerShip(w)
  \/ \E w \in Pipes : BudgetExpires(w)
  \/ \E w \in Pipes : WorkerTimeUp(w)
  \/ \E w \in Pipes : WorkerReturn(w)
  \/ ExecutorStep
  \/ WriterTake
  \/ WriterEnd

DatagenSpec == DatagenInit /\ [][DatagenNext]_vars

\* an arena and the calls made on it
ArenaInit ==
  /\ ExecutorNew
  /\ ParamsDefault
  /\ GenIdle
  /\ EvalInit
  /\ TreeIdle
  /\ LimitsIdle
  /\ UgiIdle
  /\ TimeIdle
  /\ ArenaNew

ArenaNext ==
  \/ \E object \in Objects : ArenaAlloc(object)
  \/ \E handle \in Handles : ArenaDealloc(handle)
  \/ \E handle \in Handles : ArenaTryGet(handle)

ArenaSpec == ArenaInit /\ [][ArenaNext]_vars

\* the steps of the thread of worker w, and of the writer thread
WorkerRun(w) ==
  \/ WorkerStartGame(w)
  \/ WorkerGoBegin(w)
  \/ WorkerSend(w)
  \/ WorkerRecv(w)
  \/ WorkerGoEnd(w)
  \/ WorkerShip(w)
  \/ WorkerTimeUp(w)
  \/ WorkerReturn(w)

WriterRun == WriterTake \/ WriterEnd

\* run_data_generation with threads that are scheduled: a thread that can
\* take a step does not wait forever
FairDatagenSpec ==
  /\ DatagenInit
  /\ [][DatagenNext]_vars
  /\ \A w \in Pipes : WF_vars(WorkerRun(w))
  /\ WF_vars(ExecutorStep)
  /\ WF_vars(WriterRun)

\* Threads are scheduled by the OS: a thread that can take its next step
\* takes it.  Whether an idle engine searches again or is dropped is its
\* owner's choice and carries no fairness.
FairSpec ==
  /\ Spec
  /\ WF_vars(ExecutorStep)
  /\ \A c \in Pipes : WF_vars(ClientSend(c)) /\ WF_vars(ClientRecv(c))

\* The clients of LiveSpec are never dropped and go on submitting.
LiveNext ==
  \/ \E c \in Pipes : ClientPrepare(c)
  \/ \E c \in Pipes : ClientSend(c)
  \/ \E c \in Pipes : ClientRecv(c)
  \/ PullWhile
  \/ PullTryRecv
  \/ \E c \in Pipes : PullSelect(c)
  \/ TickEvaluate
  \/ TickSend

LiveSpec ==
  /\ Init
  /\ [][LiveNext]_vars
  /\ WF_vars(ExecutorStep)
  /\ \A c \in Pipes :
        WF_vars(ClientPrepare(c)) /\ WF_vars(ClientSend(c)) /\ WF_vars(ClientRecv(c))

(***************************************************************************)
(* Properties of the evaluator.                                            *)
(***************************************************************************)
\* the boards of client c the executor holds: in the waiting list, or in the
\* batch being fanned out with their reply not yet sent
Pending(c) ==
  Cardinality({i \in 1 .. Len(inWaiting) : inWaiting[i][1] = c})
  + (IF evPc = "fanout"
       THEN Cardinality({i \in (slot + 1) .. Len(indices) : indices[i] = c})
       ELSE 0)

LostOf(c) == Cardinality({i \in 1 .. Len(lost) : lost[i][1] = c})

C2_PerClientFifo ==
  \A c \in Pipes :
    /\ Len(rcvd[c]) <= Len(sent[c])
    /\ \A n \in 1 .. Len(rcvd[c]) : rcvd[c][n] = Evaluate(sent[c][n])

C2_Witness ==
  /\ \A c \in Pipes : Len(rcvd[c]) >= 2
  /\ inWaiting = <<>>

\* C3: with N <= 1024 pipes every evaluated batch holds exactly N positions,
\* one of each client, the output of a slot goes to the client whose position
\* is in the slot, and so k batches answer every client exactly k times.
C3_FullBatchesRouted ==
  NumPipes <= EXECUTOR_BATCH_SIZE =>
    /\ evPc = "fanout" =>
         /\ Len(indices) = NumPipes
         /\ \A c \in Pipes : Cardinality({i \in 1 .. Len(indices) : indices[i] = c}) = 1
    /\ \A c \in Pipes :
         /\ replied[c] + (IF evPc = "fanout" THEN Pending(c) ELSE 0) = batches
         /\ \A i \in 1 .. Len(replyCh[c]) : replyCh[c][i].policy_value_of[1] = c
         /\ \A i \in 1 .. Len(rcvd[c]) : rcvd[c][i].policy_value_of[1] = c

C3_Witness ==
  /\ batches = MaxSubmit
  /\ \A c \in Pipes : Len(rcvd[c]) = MaxSubmit

Blocked(c) == pc[c] = "send" \/ (pc[c] = "recv" /\ replyCh[c] = <<>>)

\* C5: once the evaluator thread is gone, a search thread blocked sending or
\* receiving observes the closed channel and terminates, and no search
\* thread stays inside send or recv for ever.
C5_BlockedClientsTerminate ==
  \A c \in Pipes :
    /\ (ExecutorDropped /\ Blocked(c)) ~> (pc[c] = "panicked")
    /\ ExecutorDropped ~> (pc[c] \notin {"send", "recv"})

C5_Witness ==
  /\ ExecutorDropped
  /\ \E c \in Pipes : pc[c] = "panicked" /\ Len(sent[c]) > Len(rcvd[c])

\* the executor thread is alive and cannot take a step
ExecutorBlocked == ~ExecutorDropped /\ ~ENABLED ExecutorStep

\* C6: with all clients connected and resubmitting, every submitted position
\* is eventually answered, and the evaluator blocks only in the select of
\* pull, with fewer than B positions waiting and all request channels empty.
C6_NoDeadlock ==
  /\ \A c \in Pipes : \A n \in 1 .. MaxSubmit :
        (Len(sent[c]) >= n) ~> (Len(rcvd[c]) >= n)
  /\ [](ExecutorBlocked =>
          /\ evPc = "select"
          /\ Len(inWaiting) < BatchSize
          /\ \A c \in Pipes : reqCh[c] = <<>>)

C6_Witness ==
  /\ ExecutorBlocked
  /\ Len(inWaiting) >= 1
  /\ \E c \in Pipes : Len(rcvd[c]) >= 1

(***************************************************************************)
(* Properties of the search tree.  Every state of SearchSpec lies between  *)
(* two iterations of the search.                                           *)
(***************************************************************************)
NodeIds == 0 .. (Len(tree) - 1)

\* the instantiated children of node n: the nodes whose parent is n
ChildrenOf(n) == {k \in NodeIds : Nd(tree, k).parent = n}

RECURSIVE SumVisits(_)
SumVisits(S) ==
  IF S = {} THEN 0
  ELSE LET k == CHOOSE x \in S : TRUE IN Nd(tree, k).visits + SumVisits(S \ {k})

\* the visits of n that are not visits of one of its children
OwnVisits(n) == Nd(tree, n).visits - SumVisits(ChildrenOf(n))

\* C7: for every node, 0 <= wl <= visits (wl is counted in units of 0.5).
C7_WlWithinVisits ==
  \A n \in NodeIds :
    /\ Nd(tree, n).wl >= 0
    /\ Nd(tree, n).wl <= One * Nd(tree, n).visits

C7_Witness ==
  /\ \E n \in NodeIds : Nd(tree, n).visits >= 2 /\ Nd(tree, n).wl = One * Nd(tree, n).visits
  /\ \E n \in NodeIds : Nd(tree, n).visits >= 2 /\ Nd(tree, n).wl = 0

\* C8 as claimed: every node of the tree has visits >= 1, and the root has
\* one visit right after its initial evaluation and expansion.
C8_EveryNodeVisited ==
  /\ \A n \in NodeIds : Nd(tree, n).visits >= 1
  /\ (tree # <<>> /\ iterations = 0) => Nd(tree, 0).visits = 1

\* C8 (amended): every node other than the root has visits >= 1; the root
\* has as many visits as iterations were run on the tree, none right after
\* its initial evaluation and expansion.
C8_NonRootVisitedRootCountsIterations ==
  /\ \A n \in NodeIds \ {0} : Nd(tree, n).visits >= 1
  /\ tree # <<>> => Nd(tree, 0).visits = iterations

C8_Witness ==
  /\ phase = "searching"
  /\ Len(tree) = 1
  /\ Nd(tree, 0).edges.some
  /\ Nd(tree, 0).visits = 0
  /\ nodeLimit > 0

\* C9 as claimed: once an iteration has run, every node, the root included,
\* has at least one visit of its own, a non-terminal node exactly one.
C9_OwnVisitEverywhere ==
  iterations >= 1 => \A n \in NodeIds :
    /\ OwnVisits(n) >= 1
    /\ ~IsTerminal(Nd(tree, n)) => OwnVisits(n) = 1

\* C9 (amended): every node other than the root has at least one visit of its
\* own, exactly one if it is not terminal; a non-terminal root has none: its
\* visits are the sum of the visits of its children.
C9_OwnVisitExceptRoot ==
  /\ \A n \in NodeIds \ {0} :
       /\ OwnVisits(n) >= 1
       /\ ~IsTerminal(Nd(tree, n)) => OwnVisits(n) = 1
  /\ (tree # <<>> /\ ~IsTerminal(Nd(tree, 0))) => OwnVisits(0) = 0

C9_Witness ==
  /\ Len(tree) >= 4
  /\ Nd(tree, 0).visits >= 3
  /\ \E n \in NodeIds \ {0} : ChildrenOf(n) # {} /\ Nd(tree, n).visits >= 2
  /\ \E n \in NodeIds \ {0} : IsTerminal(Nd(tree, n)) /\ Nd(tree, n).visits >= 2

\* the sibling list of node n, followed for at most one link more than
\* there are nodes
ChildWalk(n) == SiblingWalk(tree, Nd(tree, n).child, Len(tree) + 1)

\* C10: the sibling list of every node ends, holds exactly the nodes whose
\* parent the node is, each once, and their edge indices are pairwise
\* distinct and index the edge list of the node.
C10_SiblingListIsChildren ==
  \A n \in NodeIds :
    LET walk == ChildWalk(n) IN
      /\ Len(walk) <= Len(tree)
      /\ \A i \in 1 .. Len(walk) : walk[i] \in NodeIds
      /\ \A i, j \in 1 .. Len(walk) : walk[i] = walk[j] => i = j
      /\ {walk[i] : i \in 1 .. Len(walk)} = ChildrenOf(n)
      /\ \A i, j \in 1 .. Len(walk) :
           Nd(tree, walk[i]).index = Nd(tree, walk[j]).index => i = j
      /\ \A i \in 1 .. Len(walk) :
           /\ Nd(tree, walk[i]).index >= 0
           /\ Nd(tree, walk[i]).index < Len(Nd(tree, n).edges.list)

C10_Witness ==
  \E n \in NodeIds : Len(ChildWalk(n)) >= 3

\* the move of the edge of the root that leads to child c
RootMoveOf(c) == Nd(tree, 0).edges.list[Nd(tree, c).index + 1].pov_move

\* C11: node 0 is the root and the only node with a null parent; every other
\* node has its parent at a smaller index, the parent is expanded, and the
\* edge of the parent the node records exists and is the move that leads
\* from the parent's board to the node's board.
C11_ParentLinks ==
  /\ Len(boards) = Len(tree)
  /\ tree # <<>> => IsNull(Nd(tree, 0).parent) /\ boards[1] = root
  /\ \A n \in NodeIds :
       [i \in 1 .. Len(Nd(tree, n).edges.list) |-> Nd(tree, n).edges.list[i].pov_move]
         = GenerateMoves(boards[n + 1])
  /\ \A n \in NodeIds \ {0} :
       LET p == Nd(tree, n).parent IN
         /\ ~IsNull(p)
         /\ p \in NodeIds
         /\ p < n
         /\ Nd(tree, p).edges.some
         /\ Nd(tree, n).index >= 0
         /\ Nd(tree, n).index < Len(Nd(tree, p).edges.list)
         /\ boards[n + 1]
              = MakeMove(boards[p + 1], Nd(tree, p).edges.list[Nd(tree, n).index + 1].pov_move)

C11_Witness ==
  /\ \E n \in NodeIds : Nd(tree, n).parent \in NodeIds \ {0} /\ Nd(tree, n).index >= 1
  /\ \E n \in NodeIds : Nd(tree, n).parent = 0 /\ Nd(tree, n).index >= 1

\* C12 as claimed: set_position empties the tree, and every go call starts
\* from a tree without a node of an earlier go call.
C12_TreeNeverPersists ==
  /\ ~goSinceSet => tree = <<>>
  /\ goSinceSet => inherited = 0

\* C12 (amended): set_position empties the tree; the first go call after it
\* starts from the empty tree, and a go call that follows another go call
\* with no set_position in between continues with the tree that call left.
C12_TreeKeptUntilSetPosition ==
  /\ ~goSinceSet => tree = <<>>
  /\ goSinceSet =>
       /\ inherited = 0 <=> ~continued
       /\ Len(tree) >= inherited
       /\ Len(tree) >= 1

C12_Witness ==
  /\ goSinceSet
  /\ continued
  /\ phase = "searching"
  /\ inherited >= 2
  /\ Len(tree) > inherited

\* C13: the move go returns is the move of the root edge of the child with
\* the most visits, the earliest in sibling order among those with the most;
\* it is never the move of an edge without a child.
C13_BestMoveMostVisited ==
  lastGo.returned =>
    LET walk == ChildWalk(0) IN
      \E i \in 1 .. Len(walk) :
        /\ \A j \in 1 .. Len(walk) : Nd(tree, walk[j]).visits <= Nd(tree, walk[i]).visits
        /\ \A j \in 1 .. (i - 1) : Nd(tree, walk[j]).visits < Nd(tree, walk[i]).visits
        /\ lastGo.best_move = RootMoveOf(walk[i])

C13_Witness ==
  /\ lastGo.returned
  /\ LET walk == ChildWalk(0) IN
       /\ Len(walk) >= 2
       /\ Len(walk) < Len(Nd(tree, 0).edges.list)
       /\ Nd(tree, walk[1]).visits = Nd(tree, walk[2]).visits
       /\ lastGo.best_move = RootMoveOf(walk[1])

\* C14: the root distribution go returns has policy_dim slots; the slot of
\* the move of a root edge with a child holds the visits of that child, every
\* other slot holds 0.
C14_RootDistribution ==
  lastGo.returned =>
    /\ Len(lastGo.root_dist) = POLICY_DIM
    /\ \A k \in 0 .. (POLICY_DIM - 1) :
         LET holders == {c \in ChildrenOf(0) : PolicyIndex(RootMoveOf(c)) = k} IN
           IF holders = {}
             THEN lastGo.root_dist[k + 1] = 0
             ELSE \A c \in holders : lastGo.root_dist[k + 1] = Nd(tree, c).visits

C14_Witness ==
  /\ lastGo.returned
  /\ Len(Nd(tree, 0).edges.list) < POLICY_DIM
  /\ \E k \in 1 .. POLICY_DIM : lastGo.root_dist[k] >= 2
  /\ \E k \in 1 .. POLICY_DIM : lastGo.root_dist[k] = 1
  /\ \E k \in 1 .. POLICY_DIM : lastGo.root_dist[k] = 0

\* C15: a go call with node cap K >= 1 on an empty tree at a root that is
\* not terminal runs exactly K iterations, the root distribution sums to K,
\* the best move is a legal move of the root, and for K = 1 the distribution
\* has one entry that is not 0, which is 1.
C15_NodeCapIterations ==
  (lastGo.returned /\ inherited = 0 /\ nodeLimit >= 1 /\ Outcome(root) = "Ongoing") =>
    /\ nodes_searched = nodeLimit
    /\ iterations = nodeLimit
    /\ SumSeq(lastGo.root_dist) = nodeLimit
    /\ \E i \in 1 .. Len(GenerateMoves(root)) : GenerateMoves(root)[i] = lastGo.best_move
    /\ nodeLimit = 1 =>
         /\ Cardinality({k \in 1 .. Len(lastGo.root_dist) : lastGo.root_dist[k] # 0}) = 1
         /\ \E k \in 1 .. Len(lastGo.root_dist) : lastGo.root_dist[k] = 1

C15_Witness ==
  /\ lastGo.returned
  /\ inherited = 0
  /\ nodeLimit = MaxNodes
  /\ Cardinality({k \in 1 .. Len(lastGo.root_dist) : lastGo.root_dist[k] # 0}) >= 2

\* C16 as claimed: a go call with node cap 0 runs no iteration, produces no
\* best move and leaves the root position as it was.
C16_NodeCapZeroNoBestMove ==
  (goSinceSet /\ nodeLimit = 0) =>
    /\ nodes_searched = 0
    /\ ~lastGo.returned
    /\ root = rootAtGo

\* C16 (amended): a go call with node cap 0 runs no iteration and leaves the
\* root position as it was; on a tree whose root has no child (the empty
\* tree, for which it creates and expands the root) it panics in best_move,
\* and on a tree kept from an earlier go call it returns the best move and
\* the distribution of that tree.
C16_NodeCapZeroNoIteration ==
  (goSinceSet /\ nodeLimit = 0) =>
    /\ nodes_searched = 0
    /\ root = rootAtGo
    /\ Len(tree) = Max(inherited, 1)
    /\ phase = "panicked" => ChildrenOf(0) = {}
    /\ lastGo.returned =>
         /\ continued
         /\ inherited >= 2
         /\ lastGo.best_move = BestMove(tree).move
         /\ lastGo.root_dist = Dist(tree)

C16_Witness ==
  /\ goSinceSet
  /\ nodeLimit = 0
  /\ lastGo.returned
  /\ Nd(tree, 0).visits >= 2

(***************************************************************************)
(* Properties of Limits.                                                   *)
(***************************************************************************)
\* the specifiers at positions given by S, the last one if there is one
LastOf(S) == IF S = {} THEN 0 ELSE CHOOSE i \in S : \A j \in S : j <= i

\* the node cap a sequence of specifiers leaves: that of the last nodes
\* specifier; the clock it leaves: that of the last movetime or time specifier
LastNodes(sps) ==
  LET i == LastOf({j \in 1 .. Len(sps) : sps[j].spec = "nodes"})
  IN  IF i = 0 THEN None ELSE Some(sps[i].nodes)
LastClock(sps) ==
  LET i == LastOf({j \in 1 .. Len(sps) : sps[j].spec \in {"movetime", "time"}})
  IN  IF i = 0 THEN None
      ELSE IF sps[i].spec = "movetime" THEN Some(Fixed(sps[i].millis))
      ELSE Some(sps[i].clock)

NotInfinite(sp) == sp.spec # "infinite"

\* C20: each field of a + b is the field of b if b sets it and the field of
\* a otherwise; the value of a LIMITS text is + folded over its specifiers
\* from the left, starting from infinite, so that each field is what the
\* last specifier that sets it says, and infinite specifiers change nothing.
C20_RightBiasedMerge ==
  /\ sum.done =>
       /\ rhs.nodes.some => sum.val.nodes = rhs.nodes
       /\ ~rhs.nodes.some => sum.val.nodes = lhs.nodes
       /\ rhs.time.some => sum.val.time = rhs.time
       /\ ~rhs.time.some => sum.val.time = lhs.time
  /\ (parsed.done /\ words = Render(specifiers)) =>
       /\ parsed.val.ok
       /\ parsed.val.limits = ValueOf(specifiers)
       /\ parsed.val.limits.nodes = LastNodes(specifiers)
       /\ parsed.val.limits.time = LastClock(specifiers)
       /\ parsed.val.limits = LimitsFromStr(Render(SelectSeq(specifiers, NotInfinite))).limits
       /\ (sum.done /\ specifiers # <<>>) => sum.val = parsed.val.limits

C20_Witness ==
  /\ sum.done
  /\ parsed.done
  /\ words = Render(specifiers)
  /\ Len(specifiers) = 3
  /\ specifiers[1].spec = "nodes"
  /\ specifiers[2].spec \in {"movetime", "time"}
  /\ specifiers[3].spec = "nodes"
  /\ specifiers[1].nodes # specifiers[3].nodes
  /\ parsed.val.limits.nodes = Some(specifiers[3].nodes)
  /\ parsed.val.limits.time.some

(***************************************************************************)
(* Properties of the protocol loop.                                        *)
(***************************************************************************)
\* the commands whose match arm ends with continue, before the load of QUIT
ContinueCommands == {"go"}

\* C17: in a search with infinite limits, at most 1024 iterations begin with
\* a line waiting on the command channel; the 1024th at the latest takes the
\* line at its checkpoint, and the loop runs no iteration after that.
C17_InterruptWithinCheckpoint ==
  (mainPc = "search" /\ limits = LimitsInfinite) =>
    /\ sinceLine <= CHECKPOINT_INTERVAL
    /\ stopped_by_stdin => polled # NoLine /\ ~ENABLED SearchIterate
    /\ (sinceLine > 0 /\ ~stopped_by_stdin) => cmdCh # <<>>

C17_Witness ==
  /\ mainPc = "search"
  /\ limits = LimitsInfinite
  /\ stopped_by_stdin
  /\ sinceLine = CHECKPOINT_INTERVAL
  /\ searchCount = CHECKPOINT_INTERVAL + 1
  /\ polled = "stop"

\* who may set QUIT, and what the poll of a search does with a command
QuitSetters ==
  /\ QUIT <=> quitBy # "none"
  /\ quitBy = "loop" => mainPc = "exited"
  /\ quitBy = "poll" => polled = "quit"
  /\ quitBy = "eof" => readerPc = "done"
  /\ (mainPc = "search" /\ polled # NoLine) => stopped_by_stdin
  /\ (mainPc = "search" /\ polled \notin {NoLine, "quit"} /\ QUIT) => quitBy = "eof"

\* C18 as claimed: QUIT is set only by a quit command, read by the loop or
\* by the poll of a search, or by the end of input; any other command the
\* poll takes stops the search and leaves the flag alone; and once the flag
\* is set the loop matches no further command.
C18_QuitEndsLoopAtOnce ==
  /\ QuitSetters
  /\ lateHandled = <<>>

\* C18 (amended): as claimed for who sets QUIT and for the poll.  The loop
\* loads the flag only at the end of a turn: when the end of input sets it,
\* the loop still matches commands that wait on the channel, until it has
\* matched one whose arm does not end with continue or has read the quit
\* line the end of input sent; when the loop or the poll sets it, the loop
\* matches no further command.
C18_QuitEndsLoopAtNextLoad ==
  /\ QuitSetters
  /\ lateHandled # <<>> => quitBy = "eof"
  /\ \A i \in 1 .. (Len(lateHandled) - 1) : lateHandled[i] \in ContinueCommands
  /\ (mainPc = "recv" /\ lateHandled # <<>>) =>
        lateHandled[Len(lateHandled)] \in ContinueCommands

C18_Witness ==
  /\ mainPc = "exited"
  /\ quitBy = "eof"
  /\ Len(lateHandled) = MaxLines
  /\ lateHandled[Len(lateHandled)] = "isready"
  /\ readyoks = 1

\* C19 as claimed: an isready line that has been taken off the command
\* channel has been answered with one readyok line; a line taken without
\* the answer cannot be answered later, it is no longer on the channel.
C19_EveryIsreadyAnswered ==
  readyoks = isreadyTaken

(***************************************************************************)
(* Properties of the clock.                                                *)
(***************************************************************************)
\* the node cap of the call is set and reached
CapReached == tmLimits.nodes.some /\ tmNodes >= tmLimits.nodes.val

\* what time_limit does for the clock and the side of the call
SideLimit == ClockTimeLimit(tmLimits.time.val, tmIsP1, overflowChecks)

\* the clock of the call is set, its time limit is computed and is reached
ClockReached ==
  /\ tmLimits.time.some
  /\ ~SideLimit.panicked
  /\ tmElapsed >= SideLimit.val

\* C21: is_out_of_time returns true if and only if a node cap is set and
\* nodes_searched >= cap, or a clock is set and elapsed >= the time limit
\* of that side; it returns unless the node cap is not reached and the time
\* limit it then computes panics; with infinite limits it returns false.
C21_OutOfTimeIffBoundReached ==
  outOfTime.done =>
    /\ outOfTime.val.panicked <=>
          (~CapReached /\ tmLimits.time.some /\ SideLimit.panicked)
    /\ ~outOfTime.val.panicked =>
          (outOfTime.val.val <=> (CapReached \/ ClockReached))
    /\ tmLimits = LimitsInfinite => outOfTime.val = Returned(FALSE)

C21_Witness ==
  /\ outOfTime.done
  /\ tmLimits.nodes.some
  /\ ~CapReached
  /\ tmLimits.time.some
  /\ tmLimits.time.val.kind = "Dynamic"
  /\ ~tmIsP1
  /\ tmElapsed = 5
  /\ outOfTime.val = Returned(TRUE)

\* the base and the increment of the side the time limit is asked for
OurBase == IF tmIsP1 THEN tmLimits.time.val.p1_base ELSE tmLimits.time.val.p2_base
OurIncrement == IF tmIsP1 THEN tmLimits.time.val.p1_inc ELSE tmLimits.time.val.p2_inc

\* C22 as claimed: for a dynamic clock, whatever base and increment are,
\* time_limit returns, the value is at most base - 50, and no step of the
\* computation leaves the word: 3 * increment fits and base - 50 is not
\* negative.
C22_BudgetLeavesReserve ==
  (timeLimit.done /\ tmLimits.time.val.kind = "Dynamic") =>
    /\ ~timeLimit.val.panicked
    /\ INC_NUM * OurIncrement <= U64Max
    /\ OurBase - RESERVE_MS >= 0
    /\ timeLimit.val.val <= OurBase - RESERVE_MS

(***************************************************************************)
(* Properties of the go, play and position commands.                       *)
(***************************************************************************)
TurnIds == 1 .. Len(turns)

\* C23: a go command whose LIMITS text does not parse is rejected as a
\* whole: the turn prints the info string, starts no search, prints no
\* bestmove, leaves limits, root and tree of the engine as they were, and
\* main_loop is back at its recv, where it matches the next line.
C23_InvalidGoRejected ==
  \A i \in TurnIds :
    (turns[i].line.cmd = "go" /\ turns[i].line.args \in BadLimitsTexts) =>
      /\ turns[i].reported
      /\ turns[i].after = turns[i].before
      /\ turns[i].pc = "recv"
      /\ (i = Len(turns) /\ cmdCh # <<>>) => ENABLED MainCommand

C23_Witness ==
  /\ Len(turns) = 2
  /\ turns[1].line = GoLine(<<Kw("nodes"), Num(1), Kw("bogus")>>)
  /\ turns[2].line = GoLine(<<Kw("nodes"), Num(1)>>)
  /\ turns[2].after.limits = LimitsNodes(1)
  /\ bestmoves = 1

\* the word of a play command is a move and a legal one on the board
PlayedLegal(w, board) ==
  /\ IsMoveTok(w)
  /\ \E k \in DOMAIN GenerateMoves(board) : GenerateMoves(board)[k] = w[2]

\* C24: play M makes M on the root of the engine and clears the tree if and
\* only if M is a legal move of the root; a word that is no move, and an
\* illegal move, are reported and leave root and tree as they were.
C24_PlayOnlyLegalMoves ==
  \A i \in TurnIds :
    turns[i].line.cmd = "play" =>
      IF PlayedLegal(turns[i].line.args[1], turns[i].before.root)
        THEN /\ turns[i].after.root =
                  MakeMove(turns[i].before.root, turns[i].line.args[1][2])
             /\ turns[i].after.tree = "empty"
             /\ ~turns[i].reported
        ELSE /\ turns[i].after = turns[i].before
             /\ turns[i].reported

C24_Witness ==
  /\ Len(turns) = 2
  /\ turns[2].line = PlayLine(MoveTok(2))
  /\ turns[2].before.tree = "grown"
  /\ turns[2].after.tree = "empty"
  /\ engineRoot = [pile |-> MaxPile - 2, turn |-> "Second", last |-> 2]

\* the position command has a user error: a board part that is neither
\* startpos nor fen, a fen text that does not parse, or a word in the move
\* list that is no move
PositionUserError(args) ==
  \/ args[1] \in {BadBoardPart, BadFenPart}
  \/ \E k \in 2 .. Len(args) : ~IsMoveTok(args[k])

\* C25 as claimed: a position command with a user error is reported and
\* leaves root and tree of the engine as they were.
C25_PositionErrorLeavesEngine ==
  \A i \in TurnIds :
    (turns[i].line.cmd = "position" /\ PositionUserError(turns[i].line.args)) =>
      /\ turns[i].reported
      /\ turns[i].after = turns[i].before


(***************************************************************************)
(* Properties of data generation.                                          *)
(***************************************************************************)
\* the position after the first plies moves of a move list
RECURSIVE Replay(_, _, _)
Replay(board, move_list, plies) ==
  IF plies = 0 THEN board
  ELSE MakeMove(Replay(board, move_list, plies - 1), move_list[plies][1])

\* the (move, distribution) pairs of a sequence of deliveries
RECURSIVE PairsIn(_)
PairsIn(msgs) ==
  IF msgs = <<>> THEN 0 ELSE Len(Head(msgs).game.move_list) + PairsIn(Tail(msgs))

\* the delivery a line was written from
DeliveryOf(row) == {i \in DOMAIN taken : taken[i].by = row.by /\ taken[i].no = row.no}

\* C26: whatever records the writer has processed, the three files have the
\* same number of lines, one for each (move, distribution) pair of the
\* records, and line N of each file is written from the same ply of the same
\* game: the position before that ply, the distribution recorded for it, and
\* the value target of its side to move.
C26_FilesRowAligned ==
  /\ Len(positions) = Len(policy_tgt)
  /\ Len(policy_tgt) = Len(value_tgt)
  /\ Len(positions) = PairsIn(taken)
  /\ \A n \in DOMAIN positions :
       /\ <<positions[n].by, positions[n].no, positions[n].ply>>
            = <<policy_tgt[n].by, policy_tgt[n].no, policy_tgt[n].ply>>
       /\ <<positions[n].by, positions[n].no, positions[n].ply>>
            = <<value_tgt[n].by, value_tgt[n].no, value_tgt[n].ply>>
       /\ Cardinality(DeliveryOf(positions[n])) = 1
       /\ \A i \in DeliveryOf(positions[n]) :
            /\ positions[n].ply \in DOMAIN taken[i].game.move_list
            /\ positions[n].text
                 = FeatureMap(Replay(taken[i].game.root, taken[i].game.move_list,
                                     positions[n].ply - 1))
            /\ policy_tgt[n].text = taken[i].game.move_list[positions[n].ply][2]
  /\ \A n \in DOMAIN positions : \A m \in DOMAIN positions :
       <<positions[n].by, positions[n].no, positions[n].ply>>
         = <<positions[m].by, positions[m].no, positions[m].ply>> => n = m

\* the writer has written the games of two workers, one of them of two plies
C26_Witness ==
  /\ Len(taken) >= 2
  /\ \E n \in DOMAIN value_tgt : \E m \in DOMAIN value_tgt :
       value_tgt[n].ply = 2 /\ value_tgt[m].by # value_tgt[n].by


\* the player to move at the ply a line was written from
MoverOf(row, msg) == ToMove(Replay(msg.game.root, msg.game.move_list, row.ply - 1))

\* C27: every line of value-target.csv is 1.0 when the player to move at its
\* ply is the winner the record names, 0.0 when the other player is, and 0.5
\* when the record names a draw, so that all lines of a drawn game are 0.5.
C27_ValueTargetBySideToMove ==
  \A n \in DOMAIN value_tgt : \A i \in DeliveryOf(value_tgt[n]) :
    /\ taken[i].game.outcome \in {"First", "Second", "None"}
    /\ taken[i].game.outcome = MoverOf(value_tgt[n], taken[i])
         => value_tgt[n].text = One
    /\ taken[i].game.outcome = OtherPlayer(MoverOf(value_tgt[n], taken[i]))
         => value_tgt[n].text = 0
    /\ taken[i].game.outcome = "None" => value_tgt[n].text = Half

\* the writer has written a drawn game of two plies and a won game of two
\* plies, with a line of the winner and a line of the loser
C27_Witness ==
  /\ \E n \in DOMAIN value_tgt : \E i \in DeliveryOf(value_tgt[n]) :
       /\ taken[i].game.outcome = "None"
       /\ value_tgt[n].ply = 2
  /\ \E n \in DOMAIN value_tgt : \E i \in DeliveryOf(value_tgt[n]) :
       taken[i].game.outcome = MoverOf(value_tgt[n], taken[i])
  /\ \E n \in DOMAIN value_tgt : \E i \in DeliveryOf(value_tgt[n]) :
       taken[i].game.outcome = OtherPlayer(MoverOf(value_tgt[n], taken[i]))


\* every delivery a worker has sent so far
Shipped == {taken[i] : i \in DOMAIN taken} \cup {recordCh[i] : i \in DOMAIN recordCh}

\* C28: the moves of a shipped record, made in order from its root, give the
\* position the worker had reached when it shipped the record, that position
\* is terminal, and the outcome of the record is its outcome.
C28_ReplayReachesTerminal ==
  \A msg \in Shipped :
    /\ Replay(msg.game.root, msg.game.move_list, Len(msg.game.move_list)) = msg.final
    /\ Outcome(msg.final) # "Ongoing"
    /\ msg.game.outcome = Outcome(msg.final)

\* a game of two plies has been shipped
C28_Witness == \E msg \in Shipped : Len(msg.game.move_list) = 2


\* the deliveries of game no of worker w the writer has taken
TakenOf(w, no) == {i \in DOMAIN taken : taken[i].by = w /\ taken[i].no = no}

\* every worker thread is over and the writer has left its loop
AllThreadsOver == wrPc = "done" /\ \A w \in Pipes : SendDropped(w)

\* C29: every game a worker has started is played to its end and its record
\* reaches the writer exactly once, whenever the other workers finish: once
\* all workers are over and the writer has left its loop, the writer has
\* taken exactly one record of each game that was started.
C29_StartedGamesDelivered ==
  AllThreadsOver =>
    \A w \in Pipes : \A no \in 1 .. wStarted[w] : Cardinality(TakenOf(w, no)) = 1


(***************************************************************************)
(* Properties of backpropagation.                                          *)
(***************************************************************************)
\* the parent links from node from up to node to: their number, or -1 when
\* to is not from or one of its ancestors
RECURSIVE DistanceTo(_, _, _, _)
DistanceTo(t, from, to, fuel) ==
  IF from = to THEN 0
  ELSE IF IsNull(Nd(t, from).parent) \/ fuel = 0 THEN -1
  ELSE LET d == DistanceTo(t, Nd(t, from).parent, to, fuel - 1)
       IN  IF d < 0 THEN -1 ELSE d + 1

\* wl and visits of node n before an iteration; a node the iteration adds
\* starts with neither
WlBefore(n) == IF n < Len(tree) THEN Nd(tree, n).wl ELSE 0
VisitsBefore(n) == IF n < Len(tree) THEN Nd(tree, n).visits ELSE 0

\* the iteration credits the path from leaf to the root, and nothing else:
\* one visit each, the leaf's credit at even distances from the leaf and one
\* minus it at odd distances
CreditsPathFrom(leaf) ==
  /\ DistanceTo(tree', leaf, 0, Len(tree')) >= 0
  /\ \A n \in 0 .. (Len(tree') - 1) :
       LET d == DistanceTo(tree', leaf, n, Len(tree'))
           v == Nd(tree', leaf).wl - WlBefore(leaf)
       IN  IF d < 0
             THEN /\ Nd(tree', n).wl = WlBefore(n)
                  /\ Nd(tree', n).visits = VisitsBefore(n)
             ELSE /\ Nd(tree', n).visits = VisitsBefore(n) + 1
                  /\ Nd(tree', n).wl - WlBefore(n) = IF d % 2 = 0 THEN v ELSE One - v

\* C30: an iteration of the search adds v to wl and 1 to visits of its leaf,
\* and for every ancestor of the leaf up to the root 1 to visits and to wl v
\* at an even distance from the leaf and 1 - v at an odd one, and changes the
\* statistics of no other node; when the leaf is the node the iteration has
\* added, v is 1 minus the value the evaluator returned for its position.
C30_BackpropagationCredits ==
  [][iterations' = iterations + 1 =>
       /\ \E leaf \in 0 .. (Len(tree') - 1) :
            /\ Len(tree') > Len(tree) => leaf = Len(tree)
            /\ CreditsPathFrom(leaf)
       /\ \A policy \in Policies, value \in EvalValues :
            IterateEvaluated(policy, value) =>
              /\ Len(tree') = Len(tree) + 1
              /\ Nd(tree', Len(tree)).wl = One - value
              /\ Nd(tree', Len(tree)).visits = 1]_vars

\* a node two links below the root has been credited with a win or a loss,
\* and a terminal node has been visited again
C30_Witness ==
  /\ \E n \in NodeIds :
       /\ DistanceTo(tree, n, 0, Len(tree)) = 2
       /\ Nd(tree, n).visits >= 1
       /\ Nd(tree, n).wl # Half * Nd(tree, n).visits
  /\ \E n \in NodeIds : IsTerminal(Nd(tree, n)) /\ Nd(tree, n).visits >= 2


(***************************************************************************)
(* Properties of the iterations of the search.                             *)
(***************************************************************************)
\* the selection of the iteration about to run
Selection == Select(tree, 0, root)

\* C31: an iteration whose selection ends at a terminal node adds no node
\* and submits no board, and credits that node with one visit and with 0.5
\* for a draw, 0.0 when the winner is the player to move at the node's
\* position and 1.0 when the winner is the other player.
C31_TerminalSelection ==
  [][(iterations' = iterations + 1 /\ Selection.kind = "Terminal") =>
       \E leaf \in {Selection.node_index} : \E pos \in {boards[leaf + 1]} :
         /\ Len(tree') = Len(tree)
         /\ boards' = boards
         /\ Outcome(pos) # "Ongoing"
         /\ Nd(tree', leaf).visits = Nd(tree, leaf).visits + 1
         /\ Outcome(pos) = "None" => Nd(tree', leaf).wl = Nd(tree, leaf).wl + Half
         /\ Outcome(pos) = ToMove(pos) => Nd(tree', leaf).wl = Nd(tree, leaf).wl
         /\ Outcome(pos) = OtherPlayer(ToMove(pos))
              => Nd(tree', leaf).wl = Nd(tree, leaf).wl + One]_vars

\* a node below the root whose game is won by the player who moved into it
\* has been selected as a terminal node and credited with 1.0
C31_Witness ==
  \E n \in NodeIds \ {0} :
    /\ IsTerminal(Nd(tree, n))
    /\ Nd(tree, n).visits >= 2
    /\ Outcome(boards[n + 1]) = OtherPlayer(ToMove(boards[n + 1]))
    /\ Nd(tree, n).wl >= One


\* the nodes below the root whose position is a finished game
GameOverNodes == {n \in NodeIds \ {0} : Outcome(boards[n + 1]) # "Ongoing"}

InnerNodes ==
  {n \in NodeIds : Nd(tree, n).edges.some /\ Len(Nd(tree, n).edges.list) > 0}

EdgesOf(n) == 0 .. (Len(Nd(tree, n).edges.list) - 1)

\* the root has two edges of the same prior
TwoEqualEdges ==
  /\ tree # <<>>
  /\ Len(Nd(tree, 0).edges.list) = 2
  /\ Nd(tree, 0).edges.list[1].probability = Nd(tree, 0).edges.list[2].probability

\* C33: uct_best returns an edge no other edge scores higher than and every
\* edge of a lower index scores lower than, with the child of that edge
\* (null if the edge is dangling); on a root with two edges of the same
\* prior the first iteration instantiates the child of edge 0 and the
\* second the child of edge 1, whatever the network returns and for every
\* c_puct tried.
C33_UctBestMaxLowestIndex ==
  /\ \A n \in InnerNodes :
       LET b == UctBest(tree, n) IN
         /\ b.edge \in EdgesOf(n)
         /\ b.child = ChildOfEdge(tree, n, b.edge)
         /\ \A e \in EdgesOf(n) :
              /\ ~EdgeScore(tree, n, e).nan
              /\ ~ScoreGreater(EdgeScore(tree, n, e), EdgeScore(tree, n, b.edge),
                               Nd(tree, n).visits)
              /\ e < b.edge =>
                   ScoreGreater(EdgeScore(tree, n, b.edge), EdgeScore(tree, n, e),
                                Nd(tree, n).visits)
  /\ (TwoEqualEdges /\ iterations >= 1) =>
       /\ Len(tree) >= 2
       /\ Nd(tree, 1).parent = 0
       /\ Nd(tree, 1).index = 0
  /\ (TwoEqualEdges /\ iterations >= 2) =>
       /\ Len(tree) >= 3
       /\ Nd(tree, 2).parent = 0
       /\ Nd(tree, 2).index = 1

\* two iterations have run on a root with two edges of the same prior, with
\* a c_puct below the default and a first child the network values as lost
C33_Witness ==
  /\ TwoEqualEdges
  /\ iterations >= 2
  /\ c_puct.num < c_puct.den
  /\ Nd(tree, 1).wl >= One


(***************************************************************************)
(* Properties of the channels of the evaluator.                            *)
(***************************************************************************)
\* the entries of the waiting list that came from client c
WaitingOf(c) == {i \in DOMAIN inWaiting : inWaiting[i][1] = c}

\* the boards and replies of client c on a channel or in the waiting list
InFlight(c) == Len(reqCh[c]) + Cardinality(WaitingOf(c)) + Len(replyCh[c])

\* C34: a client has at most one of a board on its request channel, an
\* entry in the waiting list and a reply on its reply channel; a client
\* about to send finds its request channel empty, and the executor about to
\* send a reply finds the reply channel empty.
C34_OnePositionInFlight ==
  /\ \A c \in Pipes : InFlight(c) <= 1
  /\ \A c \in Pipes : pc[c] = "send" => reqCh[c] = <<>>
  /\ evPc = "fanout" => replyCh[ReplyPipe(slot)] = <<>>

\* the reply to the second board of a client is on its reply channel while
\* the executor is about to send the reply of another client
C34_Witness ==
  /\ evPc = "fanout"
  /\ \E c \in Pipes : replyCh[c] # <<>> /\ Len(sent[c]) >= 2 /\ ReplyPipe(slot) # c


(***************************************************************************)
(* Properties of the waiting list.                                         *)
(***************************************************************************)
\* C35 as claimed: the waiting list never holds more than batch_size
\* entries, pull returns with exactly batch_size entries waiting, and tick
\* leaves the list empty.
C35_WaitingAtMostBatch ==
  /\ Len(inWaiting) <= batch_size
  /\ evPc = "tick" => Len(inWaiting) = batch_size
  /\ evPc = "fanout" => inWaiting = <<>>

\* C35 (amended): the waiting list never holds more entries than there are
\* pipes; pull returns with at least batch_size entries waiting, and tick
\* takes exactly the first batch_size of them and leaves the others
\* waiting; when the capacity is not below the number of pipes these are
\* exactly batch_size and none.
C35_WaitingAtMostPipes ==
  /\ Len(inWaiting) <= NumPipes
  /\ evPc = "tick" => Len(inWaiting) >= batch_size
  /\ evPc = "fanout" =>
       /\ Len(indices) = batch_size
       /\ Len(inWaiting) <= NumPipes - batch_size
  /\ batch_size = NumPipes => C35_WaitingAtMostBatch

\* pull has returned with more boards waiting than a batch holds
C35_Witness == evPc = "tick" /\ Len(inWaiting) > batch_size


(***************************************************************************)
(* Properties of the node storage during a go call.                        *)
(***************************************************************************)
\* C36 as claimed, its count: during a go call the tree holds one node and
\* one more for every iteration of the call that ended at a dangling edge.
C36_OnePlusExpansions ==
  phase = "searching" => Len(tree) = 1 + expansions

\* C36 (amended): during a go call an iteration whose selection ends at a
\* dangling edge appends one node to the storage and submits one board, an
\* iteration whose selection ends at a terminal node appends and submits
\* nothing, every node keeps its place, its parent and its edge index, and
\* the tree holds the nodes it held when the call began (one, the root, when
\* it began with an empty tree) and one more for every iteration of the call
\* that ended at a dangling edge.
C36_TreeGrowsNodesStay ==
  /\ [][iterations' = iterations + 1 =>
          /\ Selection.kind = "NonTerminal" =>
               /\ Len(tree') = Len(tree) + 1
               /\ Len(boards') = Len(boards) + 1
               /\ expansions' = expansions + 1
          /\ Selection.kind = "Terminal" =>
               /\ Len(tree') = Len(tree)
               /\ boards' = boards
               /\ expansions' = expansions
          /\ \A n \in NodeIds :
               /\ Nd(tree', n).parent = Nd(tree, n).parent
               /\ Nd(tree', n).index = Nd(tree, n).index
               /\ boards'[n + 1] = boards[n + 1]]_vars
  /\ [](phase = "searching" => Len(tree) = Max(inherited, 1) + expansions)

\* a go call on a tree left by an earlier call has run an iteration that
\* added a node and one that ended at a terminal node
C36_Witness ==
  /\ phase = "searching"
  /\ inherited >= 2
  /\ expansions >= 1
  /\ nodes_searched > expansions


(***************************************************************************)
(* Properties of the assertions of the search.                             *)
(***************************************************************************)
\* the link Engine::expand would write for the selection: first_child of
\* the selected node, or next_sibling of its last child
LinkToWrite(sel) ==
  LET last == LastChild(sel.tree, Nd(sel.tree, sel.node_index).child, Len(sel.tree))
  IN  IF IsNull(last) THEN Nd(sel.tree, sel.node_index).child
      ELSE Nd(sel.tree, last).sibling

\* C37: on the tree of a root whose game is not over, the next selection
\* never calls uct_best on a node without an edge list; when it ends at a
\* dangling edge the edge index lies within the edge list of the selected
\* node and the link expand is to write is null; when it ends at a terminal
\* node the game at its position has an outcome.
C37_NoAssertionReachable ==
  (tree # <<>> /\ Outcome(root) = "Ongoing") =>
    /\ Selection.kind # "Panic"
    /\ Selection.kind = "NonTerminal" =>
         /\ Nd(Selection.tree, Selection.node_index).edges.some
         /\ Selection.edge_index >= 0
         /\ Selection.edge_index
              < Len(Nd(Selection.tree, Selection.node_index).edges.list)
         /\ IsNull(LinkToWrite(Selection))
    /\ Selection.kind = "Terminal" => Outcome(Selection.board_state) # "Ongoing"

\* the next selection ends at a dangling edge of a node that has a child
\* already, in a tree that holds a terminal node
C37_Witness ==
  /\ tree # <<>>
  /\ Outcome(root) = "Ongoing"
  /\ Selection.kind = "NonTerminal"
  /\ ~IsNull(Nd(tree, Selection.node_index).child)
  /\ \E n \in NodeIds : IsTerminal(Nd(tree, n)) /\ Nd(tree, n).visits >= 1


(***************************************************************************)
(* Properties of what an iteration writes.                                 *)
(***************************************************************************)
\* the first_child and next_sibling links of the nodes held before a step
\* that differ after it
LinksWritten ==
  {<<n, "first_child">> : n \in {k \in NodeIds : Nd(tree', k).child # Nd(tree, k).child}}
    \cup {<<n, "next_sibling">> : n \in {k \in NodeIds : Nd(tree', k).sibling # Nd(tree, k).sibling}}

\* the value of a link before and after a step
LinkBefore(l) == IF l[2] = "first_child" THEN Nd(tree, l[1]).child ELSE Nd(tree, l[1]).sibling
LinkAfter(l) == IF l[2] = "first_child" THEN Nd(tree', l[1]).child ELSE Nd(tree', l[1]).sibling

\* C38: an iteration of the search leaves every node it found in the tree
\* with its parent, edge index, edge list, terminal type and bounds, and
\* with its wl and visits unless the node lies on the path from the leaf of
\* the iteration (the node it added, or else the terminal node it selected)
\* to the root; it writes one null first_child or next_sibling link, with
\* the index of the node it added, when it added one and no link otherwise;
\* the node it added has its edge list; and no step at all changes the edge
\* list of a node that stays in the tree, which is set when the step begins.
C38_IterationFrame ==
  /\ [][iterations' = iterations + 1 =>
          /\ Len(tree') \in {Len(tree), Len(tree) + 1}
          /\ \E leaf \in {IF Len(tree') > Len(tree) THEN Len(tree)
                          ELSE Selection.node_index} :
               \A n \in NodeIds :
                 /\ Nd(tree', n).parent = Nd(tree, n).parent
                 /\ Nd(tree', n).index = Nd(tree, n).index
                 /\ Nd(tree', n).edges = Nd(tree, n).edges
                 /\ Nd(tree', n).terminal_type = Nd(tree, n).terminal_type
                 /\ Nd(tree', n).upper_bound = Nd(tree, n).upper_bound
                 /\ Nd(tree', n).lower_bound = Nd(tree, n).lower_bound
                 /\ DistanceTo(tree', leaf, n, Len(tree')) < 0 =>
                      /\ Nd(tree', n).wl = Nd(tree, n).wl
                      /\ Nd(tree', n).visits = Nd(tree, n).visits
          /\ Cardinality(LinksWritten) = Len(tree') - Len(tree)
          /\ \A l \in LinksWritten :
               IsNull(LinkBefore(l)) /\ LinkAfter(l) = Len(tree)
          /\ Len(tree') > Len(tree) =>
               /\ Nd(tree', Len(tree)).edges.some
               /\ Nd(tree', Len(tree)).parent = Selection.node_index
               /\ Nd(tree', Len(tree)).index = Selection.edge_index]_vars
  /\ [][\A n \in NodeIds :
          /\ Nd(tree, n).edges.some
          /\ n < Len(tree') => Nd(tree', n).edges = Nd(tree, n).edges]_vars

\* an iteration has added a node as the next sibling of a node that lies
\* off the path it credited, in a tree of at least four nodes
C38_Witness ==
  /\ phase = "searching"
  /\ Len(tree) >= 4
  /\ \E n \in NodeIds :
       /\ Nd(tree, n).sibling = Len(tree) - 1
       /\ Nd(tree, Len(tree) - 1).visits = 1
       /\ Nd(tree, n).visits >= 1


(***************************************************************************)
(* Properties of the end of the data generation.                           *)
(***************************************************************************)
\* the thread of worker w has returned or has unwound from a panic, which
\* is when its join returns
WorkerOver(w) == (wPc[w] = "ended" /\ pc[w] = "dropped") \/ pc[w] = "panicked"

\* the thread of the writer has returned or has unwound from a panic
WriterOver == wrPc \in {"done", "panicked"}

\* C39: once the time budget of every worker has expired, every worker
\* thread comes to its end, by returning or by a panic, and so does the
\* writer thread, so that every join of run_data_generation returns; and
\* whenever the senders of all workers are dropped the writer leaves its
\* receive loop.
C39_DataGenerationTerminates ==
  /\ (\A w \in Pipes : expired[w]) ~> (WriterOver /\ \A w \in Pipes : WorkerOver(w))
  /\ (\A w \in Pipes : SendDropped(w)) ~> WriterOver

\* the budget has expired, a worker has returned after a game the writer
\* took, another worker has panicked on the evaluator in the middle of a
\* game, and the writer is done
C39_Witness ==
  /\ \A w \in Pipes : expired[w] /\ WorkerOver(w)
  /\ wrPc = "done"
  /\ taken # <<>>
  /\ \E w \in Pipes : wPc[w] = "ended" /\ pc[w] = "dropped"
  /\ \E w \in Pipes : wPc[w] = "play" /\ pc[w] = "panicked"


(***************************************************************************)
(* Properties of the arena.                                                *)
(***************************************************************************)
\* the handle alloc returns is not null and was not live when it was
\* returned, and try_get is absent for a handle outside the storage
AllocFreshTryGetChecked ==
  /\ arResult.op = "alloc" =>
       /\ arResult.handle # HandleNull
       /\ ~arResult.was_live
  /\ (arResult.op = "try_get"
        /\ (arResult.handle = HandleNull \/ arResult.handle >= Len(objects))) =>
       arResult.absent

\* C40: after any sequence of alloc, dealloc and try_get calls, the handle
\* the last alloc returned is not the null handle and was not live (returned
\* by an earlier alloc and given to no dealloc since) when alloc returned
\* it, and the last try_get returned absent when its handle was the null
\* handle or an index outside the storage.
C40_AllocNeverNullNeverLive == AllocFreshTryGetChecked

\* the same of the sequences in which every dealloc was given a live handle
FreshWhenDeallocOnlyLive == ~misused => AllocFreshTryGetChecked

\* a slot has been taken off the free list and given out again after its
\* handle had been deallocated once
ReusedAfterDealloc ==
  /\ ~misused
  /\ arResult.op = "alloc"
  /\ Len(objects) >= 2
  /\ arResult.handle < Len(objects) - 1

====
